---- MODULE Spec2Model ----
(***************************************************************************)
(* Model of the omnichannel link pipeline: the MessageBus over Redis       *)
(* streams (src/utils/MessageBus.js) and its one Redis connection, the     *)
(* four consumer groups and callbacks wired by setupMessageFlow            *)
(* (src/config/constants.js, second copy, lines 230-376), the              *)
(* MonitoringProcessor quota / rate governor and the retry loop of         *)
(* ContentSummarizer.processMessage (src/processors/content-summarizer.js),*)
(* YouTubeProcessor.fetchVideoMetadata (src/unnamed/part_003) and the      *)
(* message handler of IngestionProcessor (src/processors/base-processor.js)*)
(***************************************************************************)
EXTENDS Integers, Sequences, FiniteSets, TLC

(***************************************************************************)
(* Bounds of the model.                                                    *)
(***************************************************************************)
MaxIngest == 2          \* links submitted over the whole behaviour
MaxRuns == 2            \* process starts (first start + restarts)
MaxDelivery == 2        \* cap on a pending entry's delivery counter
MaxQuotaLimit == 2      \* largest quotaLimit a governor is built with
MaxRateLimit == 2       \* largest rateLimit a governor is built with
MaxWindow == 2          \* largest rateWindowMs a governor is built with
MaxCalls == 4           \* governor checks made over the whole behaviour
MaxNow == 5             \* last instant of the governor's clock
MaxDelay == 1           \* cap on the recorded waiting time, in poll timeouts
MaxFetches == 2         \* fetchVideoMetadata calls over the whole behaviour
MaxCost == 2            \* largest cost a checkQuota call is made with

(***************************************************************************)
(* Names taken from the source.                                            *)
(***************************************************************************)
STREAMS == [INGESTION |-> "stream:ingestion",
            PLATFORM_DETECTION |-> "stream:platform-detection",
            SCRAPING |-> "stream:scraping",
            SUMMARIZATION |-> "stream:summarization",
            NOTION |-> "stream:notion"]

StreamNames == {STREAMS[k] : k \in DOMAIN STREAMS}

\* the streams that setupMessageFlow subscribes a consumer group to
Stages == {STREAMS.INGESTION, STREAMS.PLATFORM_DETECTION, STREAMS.SCRAPING,
           STREAMS.SUMMARIZATION}

GroupOf(s) ==
    CASE s = STREAMS.INGESTION -> "platform-detection-group"
      [] s = STREAMS.PLATFORM_DETECTION -> "content-fetching-group"
      [] s = STREAMS.SCRAPING -> "summarization-group"
      [] s = STREAMS.SUMMARIZATION -> "notion-group"

\* a detection callback that publishes straight to stream:scraping
NextStream_skipFetch(s) ==
    CASE s = STREAMS.INGESTION -> STREAMS.SCRAPING
      [] s = STREAMS.PLATFORM_DETECTION -> STREAMS.SCRAPING
      [] s = STREAMS.SCRAPING -> STREAMS.SUMMARIZATION
      [] s = STREAMS.SUMMARIZATION -> "none"

\* an archiving callback that publishes its result to stream:notion
NextStream_toNotion(s) ==
    CASE s = STREAMS.INGESTION -> STREAMS.PLATFORM_DETECTION
      [] s = STREAMS.PLATFORM_DETECTION -> STREAMS.SCRAPING
      [] s = STREAMS.SCRAPING -> STREAMS.SUMMARIZATION
      [] s = STREAMS.SUMMARIZATION -> STREAMS.NOTION

\* stream a stage handler publishes its result to ("none": the archiving
\* handler publishes nothing)
NextStream(s) ==
    CASE s = STREAMS.INGESTION -> STREAMS.PLATFORM_DETECTION
      [] s = STREAMS.PLATFORM_DETECTION -> STREAMS.SCRAPING
      [] s = STREAMS.SCRAPING -> STREAMS.SUMMARIZATION
      [] s = STREAMS.SUMMARIZATION -> "none"

\* consumer 1 of a group is the one setupMessageFlow starts ("...-1");
\* consumer 2 is a further subscribe() on the same group
Consumers == {1, 2}

\* the groups the maintenance operations (claimPendingMessage, a second
\* subscribe) are exercised on
BusStages == {STREAMS.INGESTION}

Urls == <<"https://youtube.com/watch?v=abc", "https://example.org/post">>

\* the n-th submitted link: users alternate between the two kinds of link
UrlOf(n) == Urls[((n - 1) % Len(Urls)) + 1]

(***************************************************************************)
(* Redis stream entry ids.  Redis builds them from its clock and a         *)
(* sequence number (<ms>-<seq>); the model keeps their order only: id n is *)
(* the n-th id generated for the key.  Ids generated after a DEL of the    *)
(* key come from a later clock reading, so they continue the numbering.    *)
(***************************************************************************)
ZeroId == 0

IdLess(a, b) == a < b

NoEntry == [id |-> ZeroId, message |-> "none"]

VARIABLES
    proc,       \* "down" | "running"
    run,        \* number of process starts so far
    busSet,     \* ingestionProcessor.messageBus has been set
    stream,     \* Redis: stream name -> sequence of entries
    lastId,     \* Redis: stream name -> last generated id
    group,      \* Redis: stream name -> its consumer group
    pc,         \* stage -> consumer -> position in subscribe()
    cur,        \* stage -> consumer -> entry handed to the callback
    ingested,   \* links submitted so far
    published,  \* history: stream name -> ids returned by publish()
    handled,    \* history: stage -> ids the callback was invoked on (this run)
    failed,     \* history: stage -> ids whose callback threw (this run)
    acked,      \* history: stage -> ids acknowledged (this run)
    atShutdown, \* history: stage -> ids pending when the process last exited
    now,        \* the clock MonitoringProcessor reads (new Date(), Date.now())
    gov,        \* the MonitoringProcessor's fields
    qlog,       \* history: the checkQuota calls made, with their outcome
    rlog,       \* history: the checkRateLimit calls made, with their outcome
    cache,      \* YouTubeProcessor.cache: video ids whose metadata is cached
    ypc,        \* position of the fetchVideoMetadata call in progress
    ylog,       \* history: the fetchVideoMetadata calls, with what each did
    spc,        \* position of the ContentSummarizer.processMessage call
    smsg,       \* the message that call was given
    retryCount, \* its local retryCount
    lastError,  \* its local lastError
    calls,      \* history: outcome of each llm.invoke of the call
    sleeps,     \* history: the backoff delays the call slept
    notices,    \* history: the delays its "Rate limit reached" notices announced
    sout,       \* how the call ended
    finals,     \* history: chat -> final (success / failure) notifications sent
    archiverCalls, \* history: chats NotionProcessor.processMessage was invoked for
    pages,      \* history: chats a Notion page was created for
    collabFailed,  \* history: some collaborator call has failed
    tgFailed,   \* history: stage -> ids whose callback had a notification fail
    sumFailed,  \* history: chats whose summarization ended without a summary
    conn,       \* the commands in flight on the bus's one Redis connection
    blocked,    \* how long the XREADGROUP at the head has been blocking
    delay,      \* history: time commands of other loops spent behind it
    hook,       \* link -> position of the bot's message handler run on it
    botSent     \* history: the texts this.bot.sendMessage delivered

vars == <<proc, run, busSet, stream, lastId, group, pc, cur, ingested,
          published, handled, failed, acked, atShutdown, now, gov, qlog, rlog,
          cache, ypc, ylog, spc, smsg, retryCount, lastError, calls, sleeps,
          notices, sout, finals, archiverCalls, pages, collabFailed, tgFailed, sumFailed,
          conn, blocked, delay, hook, botSent>>

govVars == <<now, gov, qlog, rlog>>
ytVars == <<cache, ypc, ylog>>
sumVars == <<spc, smsg, retryCount, lastError, calls, sleeps, notices, sout>>
pipeVars == <<finals, archiverCalls, pages, collabFailed, tgFailed, sumFailed>>
connVars == <<conn, blocked, delay>>
hookVars == <<hook, botSent>>
\* everything outside the bus
sideVars == <<govVars, ytVars, sumVars, pipeVars, connVars, hookVars>>
redisVars == <<stream, lastId, group>>
histVars == <<published, handled, failed, acked, atShutdown>>

(***************************************************************************)
(* Redis commands used by MessageBus, as functions of the Redis state.     *)
(***************************************************************************)
NoGroup == [exists |-> FALSE, lastDelivered |-> ZeroId, pel |-> {}]

\* XADD with an explicit id that repeats the stream's last one
XAddId_reuse(s) == IF lastId[s] = ZeroId THEN 1 ELSE lastId[s]

\* XADD stream * : the id Redis generates
XAddId(s) == lastId[s] + 1

\* a creation that starts the group afresh when it exists already
XGroupCreate_reset(g) == [exists |-> TRUE, lastDelivered |-> ZeroId, pel |-> {}]

\* XGROUP CREATE stream group 0 MKSTREAM; BUSYGROUP leaves the group as is
XGroupCreate(g) ==
    IF g.exists THEN g
    ELSE [exists |-> TRUE, lastDelivered |-> ZeroId, pel |-> {}]

\* XREADGROUP that also returns the entries still pending in the group
Undelivered_orPending(s) ==
    {i \in 1..Len(stream[s]) :
        \/ IdLess(group[s].lastDelivered, stream[s][i].id)
        \/ \E p \in group[s].pel : p.id = stream[s][i].id}

\* XREADGROUP that also returns the pending entries handed over by XCLAIM
Undelivered_orClaimed(s) ==
    {i \in 1..Len(stream[s]) :
        \/ IdLess(group[s].lastDelivered, stream[s][i].id)
        \/ \E p \in group[s].pel : p.id = stream[s][i].id /\ p.deliveryCount >= 2}

\* XREADGROUP with NOACK: delivered entries are not kept pending
XReadGroupPel_noack(pel, k, id) == pel

\* the pending set after XREADGROUP delivered id to consumer k
XReadGroupPel(pel, k, id) ==
    pel \cup {[id |-> id, consumer |-> k, deliveryCount |-> 1]}

\* XREADGROUP ... COUNT 1 ... STREAMS stream > : indexes of the entries never
\* delivered to the group
Undelivered(s) ==
    {i \in 1..Len(stream[s]) : IdLess(group[s].lastDelivered, stream[s][i].id)}

\* an XREADGROUP that returns the newest undelivered entry first
Min_newest(S) == CHOOSE x \in S : \A y \in S : x >= y

\* COUNT 1: the oldest of the undelivered entries
Min(S) == CHOOSE x \in S : \A y \in S : x <= y

PelIds(s) == {p.id : p \in group[s].pel}

StreamIds(s) == {stream[s][i].id : i \in 1..Len(stream[s])}

\* XPENDING stream group - + 100 : at most 100 pending entries, lowest ids first
PendingLimit == 100

getPendingMessages(s) ==
    {p \in group[s].pel :
        Cardinality({q \in group[s].pel : IdLess(q.id, p.id)}) < PendingLimit}

\* XCLAIM with FORCE: an entry that is not pending is made pending
XClaim_force(pel, k, id) ==
    IF id \in {p.id : p \in pel}
    THEN {IF p.id = id
            THEN [id |-> p.id, consumer |-> k, deliveryCount |-> p.deliveryCount + 1]
            ELSE p : p \in pel}
    ELSE pel \cup {[id |-> id, consumer |-> k, deliveryCount |-> 1]}

\* XCLAIM with JUSTID: the owner changes, the delivery counter does not
XClaim_justid(pel, k, id) ==
    {IF p.id = id
        THEN [id |-> p.id, consumer |-> k, deliveryCount |-> p.deliveryCount]
        ELSE p : p \in pel}

\* XCLAIM stream group consumer 0 id : the pending set after the command
XClaim(pel, k, id) ==
    {IF p.id = id
        THEN [id |-> p.id, consumer |-> k, deliveryCount |-> p.deliveryCount + 1]
        ELSE p : p \in pel}

\* an XACK that removes nothing from the pending list
XAck_keeps(pel, id) == pel

\* XACK stream group id
XAck(pel, id) == {p \in pel : p.id # id}


(***************************************************************************)
(* MonitoringProcessor: daily quota and sliding-window rate limit.         *)
(* Time is counted in clock units; a day lasts DayMs of them.              *)
(***************************************************************************)
DayMs == 3

Costs == {1}

\* _nextMidnight evaluated at instant t: setHours(24, 0, 0, 0)
nextMidnight(t) == ((t \div DayMs) + 1) * DayMs

\* constructor({ quotaLimit, rateLimit, rateWindowMs }) run at instant t
MonitoringProcessor(quotaLimit, rateLimit, rateWindowMs, t) ==
    [quotaLimit |-> quotaLimit, quotaUsed |-> 0, quotaResetTime |-> nextMidnight(t),
     rateLimit |-> rateLimit, rateWindowMs |-> rateWindowMs, requests |-> <<>>]

\* checkQuota that resets as soon as the boundary is reached
quotaResetDue_atBoundary(g, t) == t >= g.quotaResetTime

\* checkQuota: "now > this.quotaResetTime"
quotaResetDue(g, t) == t > g.quotaResetTime

\* checkQuota, first part: the daily reset
quotaAfterReset(g, t) ==
    IF quotaResetDue(g, t)
    THEN [g EXCEPT !.quotaUsed = 0, !.quotaResetTime = nextMidnight(t)]
    ELSE g

\* checkQuota that looks at what is used already and not at the cost
quotaExceeded_usedOnly(g, cost) == g.quotaUsed > g.quotaLimit

\* checkQuota that rejects the call that would reach the limit exactly
quotaExceeded_ge(g, cost) == g.quotaUsed + cost >= g.quotaLimit

\* checkQuota: "this.quotaUsed + cost > this.quotaLimit"
quotaExceeded(g, cost) == g.quotaUsed + cost > g.quotaLimit

\* checkRateLimit that keeps a timestamp exactly rateWindowMs old
rateWindowKeeps_le(g, t, time) == t - time <= g.rateWindowMs

\* checkRateLimit: the filter "now - time < this.rateWindowMs"
rateWindowKeeps(g, t, time) == t - time < g.rateWindowMs

\* checkRateLimit, first part: the timestamps kept by the filter
requestsInWindow(g, t) ==
    LET keep(time) == rateWindowKeeps(g, t, time) IN SelectSeq(g.requests, keep)

\* checkRateLimit that admits one call more than rateLimit
rateExceeded_gt(g, reqs) == Len(reqs) > g.rateLimit

\* checkRateLimit: "this.requests.length >= this.rateLimit"
rateExceeded(g, reqs) == Len(reqs) >= g.rateLimit

\* checkQuota(cost)
checkQuota(cost) ==
    /\ Len(qlog) + Len(rlog) < MaxCalls
    /\ LET g == quotaAfterReset(gov, now)
       IN IF quotaExceeded(g, cost)
          THEN /\ gov' = g
               /\ qlog' = Append(qlog, [t |-> now, cost |-> cost, ok |-> FALSE,
                                        used |-> g.quotaUsed,
                                        reset |-> g.quotaResetTime])
          ELSE /\ gov' = [g EXCEPT !.quotaUsed = @ + cost]
               /\ qlog' = Append(qlog, [t |-> now, cost |-> cost, ok |-> TRUE,
                                        used |-> g.quotaUsed + cost,
                                        reset |-> g.quotaResetTime])
    /\ UNCHANGED <<now, rlog>>

\* checkRateLimit that pushes the timestamp before it tests the limit
checkRateLimit_recordsRejected ==
    /\ Len(qlog) + Len(rlog) < MaxCalls
    /\ LET reqs == requestsInWindow(gov, now)
       IN /\ gov' = [gov EXCEPT !.requests = Append(reqs, now)]
          /\ rlog' = Append(rlog, [t |-> now, ok |-> ~rateExceeded(gov, reqs)])
    /\ UNCHANGED <<now, qlog>>

\* checkRateLimit()
checkRateLimit ==
    /\ Len(qlog) + Len(rlog) < MaxCalls
    /\ LET reqs == requestsInWindow(gov, now)
       IN IF rateExceeded(gov, reqs)
          THEN /\ gov' = [gov EXCEPT !.requests = reqs]
               /\ rlog' = Append(rlog, [t |-> now, ok |-> FALSE])
          ELSE /\ gov' = [gov EXCEPT !.requests = Append(reqs, now)]
               /\ rlog' = Append(rlog, [t |-> now, ok |-> TRUE])
    /\ UNCHANGED <<now, qlog>>

\* time passes
GovTick ==
    /\ now < MaxNow
    /\ now' = now + 1
    /\ UNCHANGED <<gov, qlog, rlog>>

busVars == <<proc, run, busSet, stream, lastId, group, pc, cur, ingested,
             published, handled, failed, acked, atShutdown>>

\* everything outside the bus and the governor
workVars == <<ytVars, sumVars, pipeVars, connVars, hookVars>>

\* a governor built at instant 0 with limits drawn from the bounded sets
InitGov ==
    /\ now = 0
    /\ qlog = <<>>
    /\ rlog = <<>>
    /\ \E l \in 1..MaxQuotaLimit, r \in 1..MaxRateLimit, w \in 1..MaxWindow :
          gov = MonitoringProcessor(l, r, w, 0)

QuotaNext ==
    \/ GovTick /\ UNCHANGED <<busVars, workVars>>
    \/ \E c \in Costs : checkQuota(c) /\ UNCHANGED <<busVars, workVars>>

RateNext ==
    \/ GovTick /\ UNCHANGED <<busVars, workVars>>
    \/ checkRateLimit /\ UNCHANGED <<busVars, workVars>>

(***************************************************************************)
(* Initial state: nothing started yet, Redis empty.                        *)
(***************************************************************************)
InitBus ==
    /\ proc = "down"
    /\ run = 0
    /\ busSet = FALSE
    /\ stream = [s \in StreamNames |-> <<>>]
    /\ lastId = [s \in StreamNames |-> ZeroId]
    /\ group = [s \in StreamNames |-> NoGroup]
    /\ pc = [s \in Stages |-> [k \in Consumers |-> "idle"]]
    /\ cur = [s \in Stages |-> [k \in Consumers |-> NoEntry]]
    /\ ingested = 0
    /\ published = [s \in StreamNames |-> <<>>]
    /\ handled = [s \in Stages |-> <<>>]
    /\ failed = [s \in Stages |-> {}]
    /\ acked = [s \in Stages |-> {}]
    /\ atShutdown = [s \in Stages |-> {}]

\* the message IngestionProcessor builds for the n-th submitted link
NewMessage(n, url) ==
    [userId |-> n, chatId |-> n, url |-> url, platform |-> "none",
     content |-> "none", summary |-> "none", summarizationFailed |-> FALSE]

\* no message: the summarizer has not been called yet
NoMessage == NewMessage(0, "none")

\* no message event has been emitted for the link
NoHandler == [pc |-> "none", error |-> "none"]

\* no fetch, no summarization in progress, nothing sent, connection idle
InitWork ==
    /\ cache = {}
    /\ ypc = "idle"
    /\ ylog = <<>>
    /\ spc = "idle"
    /\ smsg = NoMessage
    /\ retryCount = 0
    /\ lastError = "none"
    /\ calls = <<>>
    /\ sleeps = <<>>
    /\ notices = <<>>
    /\ sout = "none"
    /\ finals = [c \in 1..MaxIngest |-> 0]
    /\ archiverCalls = <<>>
    /\ pages = {}
    /\ collabFailed = FALSE
    /\ tgFailed = [s \in Stages |-> {}]
    /\ sumFailed = {}
    /\ conn = <<>>
    /\ blocked = 0
    /\ delay = 0
    /\ hook = [n \in 1..MaxIngest |-> NoHandler]
    /\ botSent = <<>>

Init ==
    /\ InitBus
    /\ InitWork
    /\ now = 0
    /\ gov = MonitoringProcessor(1, 1, 1, 0)
    /\ qlog = <<>>
    /\ rlog = <<>>

\* the initial state of the specifications of the governor and its callers
InitMonitor == InitBus /\ InitWork /\ InitGov

(***************************************************************************)
(* YouTubeProcessor.fetchVideoMetadata: cache lookup, the two governor     *)
(* checks, then the costed call youtube.videos.list.  The checks are plain *)
(* calls outside the try block: what they throw leaves the method.         *)
(***************************************************************************)
Videos == {"abc", "xyz"}

VideosListReplies == {"ok", "notFound", "apiError"}

NewFetch(v, hit) ==
    [video |-> v, hit |-> hit, rate |-> "none", quota |-> "none",
     rateChecks |-> 0, quotaChecks |-> 0, list |-> 0,
     outcome |-> IF hit THEN "cached" ELSE "pending"]

\* a fetchVideoMetadata that goes on to the governor checks on a cache hit too
fetchVideoMetadata_checksOnHit(v) ==
    /\ ypc = "idle"
    /\ Len(ylog) < MaxFetches
    /\ \E hit \in {v \in cache, FALSE} :
          /\ ylog' = Append(ylog, NewFetch(v, hit))
          /\ ypc' = "rate"
    /\ UNCHANGED <<busVars, govVars, cache, sumVars, pipeVars, connVars, hookVars>>

\* fetchVideoMetadata(videoId), up to the cache reply: cache.get answers null
\* on a miss and on a Redis error alike
fetchVideoMetadata(v) ==
    /\ ypc = "idle"
    /\ Len(ylog) < MaxFetches
    /\ \E hit \in {v \in cache, FALSE} :
          /\ ylog' = Append(ylog, NewFetch(v, hit))
          /\ ypc' = IF hit THEN "idle" ELSE "rate"
    /\ UNCHANGED <<busVars, govVars, cache, sumVars, pipeVars, connVars, hookVars>>

\* where the method continues after this.monitor.checkRateLimit()
afterRateCheck(exceeded) == IF exceeded THEN "idle" ELSE "quota"

\* the checks wrapped in a try block that logs and goes on to the call
afterQuotaCheck_callsAnyway(exceeded) == "list"

\* where the method continues after this.monitor.checkQuota()
afterQuotaCheck(exceeded) == IF exceeded THEN "idle" ELSE "list"

\* this.monitor.checkRateLimit() of the call in progress
monitorCheckRateLimit ==
    /\ ypc = "rate"
    /\ checkRateLimit
    /\ LET exceeded == rateExceeded(gov, requestsInWindow(gov, now))
       IN /\ ypc' = afterRateCheck(exceeded)
          /\ ylog' = [ylog EXCEPT ![Len(ylog)] =
                 [@ EXCEPT !.rate = IF exceeded THEN "fail" ELSE "ok",
                           !.rateChecks = @ + 1,
                           !.outcome = IF exceeded THEN "RateLimitExceeded" ELSE @]]
    /\ UNCHANGED <<busVars, cache, sumVars, pipeVars, connVars, hookVars>>

\* this.monitor.checkQuota() of the call in progress
monitorCheckQuota ==
    /\ ypc = "quota"
    /\ checkQuota(1)
    /\ LET exceeded == quotaExceeded(quotaAfterReset(gov, now), 1)
       IN /\ ypc' = afterQuotaCheck(exceeded)
          /\ ylog' = [ylog EXCEPT ![Len(ylog)] =
                 [@ EXCEPT !.quota = IF exceeded THEN "fail" ELSE "ok",
                           !.quotaChecks = @ + 1,
                           !.outcome = IF exceeded THEN "QuotaExceeded" ELSE @]]
    /\ UNCHANGED <<busVars, cache, sumVars, pipeVars, connVars, hookVars>>

\* a call that gives its quota unit back when youtube.videos.list fails
videosList_refunds(reply) ==
    /\ ypc = "list"
    /\ ypc' = "idle"
    /\ ylog' = [ylog EXCEPT ![Len(ylog)] =
           [@ EXCEPT !.list = @ + 1,
                     !.outcome = IF reply = "ok" THEN "metadata" ELSE "error"]]
    /\ \E stored \in BOOLEAN :
          cache' = IF reply = "ok" /\ stored
                   THEN cache \cup {ylog[Len(ylog)].video} ELSE cache
    /\ gov' = IF reply = "ok" THEN gov ELSE [gov EXCEPT !.quotaUsed = @ - 1]
    /\ UNCHANGED <<busVars, now, qlog, rlog, sumVars, pipeVars, connVars, hookVars>>

\* youtube.videos.list replied: metadata is cached (cache.set swallows its
\* own errors) and returned, or the error is logged and rethrown
videosList(reply) ==
    /\ ypc = "list"
    /\ ypc' = "idle"
    /\ ylog' = [ylog EXCEPT ![Len(ylog)] =
           [@ EXCEPT !.list = @ + 1,
                     !.outcome = IF reply = "ok" THEN "metadata" ELSE "error"]]
    /\ \E stored \in BOOLEAN :
          cache' = IF reply = "ok" /\ stored
                   THEN cache \cup {ylog[Len(ylog)].video} ELSE cache
    /\ UNCHANGED <<busVars, govVars, sumVars, pipeVars, connVars, hookVars>>

FetchNext ==
    \/ GovTick /\ UNCHANGED <<busVars, workVars>>
    \/ \E v \in Videos : fetchVideoMetadata(v)
    \/ monitorCheckRateLimit
    \/ monitorCheckQuota
    \/ \E reply \in VideosListReplies : videosList(reply)

SpecFetch == InitMonitor /\ [][FetchNext]_vars

(***************************************************************************)
(* Envelopes and the stage work of the four callbacks.                     *)
(***************************************************************************)
\* a detectPlatform that returns nothing
detectPlatform_none(url) == "none"

\* PlatformDetector.detectPlatform
detectPlatform(url) ==
    IF url = Urls[1] THEN "youtube" ELSE "unknown"

\* YouTubeProcessor.extractVideoId: group 1 of the first pattern that matches
extractVideoId(url) ==
    IF url = Urls[1] THEN "abc" ELSE "none"

\* fetchVideoMetadata: metadata.url, built from the id of the video returned
watchUrl(videoId) == "https://www.youtube.com/watch?v=" \o videoId

\* a YouTubeProcessor.process that returns the envelope without its chatId
YouTubeProcess_dropsChat(m) ==
    [m EXCEPT !.platform = "youtube", !.chatId = 0, !.content = "transcript"]

\* YouTubeProcessor.process: {...message, platform: 'youtube', url:
\* metadata.url, content: transcript, ...}
YouTubeProcess(m) ==
    [m EXCEPT !.platform = "youtube",
              !.url = watchUrl(extractVideoId(m.url)),
              !.content = "transcript"]

\* ContentScraper.processMessage: {...message, content, scrapedAt}
ScraperProcess(m) == [m EXCEPT !.content = "page"]

\* what the callback of stage s publishes for message m
StageResult(s, m) ==
    CASE s = STREAMS.INGESTION -> [m EXCEPT !.platform = detectPlatform(m.url)]
      [] s = STREAMS.PLATFORM_DETECTION ->
            IF m.platform = "youtube" THEN YouTubeProcess(m) ELSE ScraperProcess(m)
      [] s = STREAMS.SCRAPING -> [m EXCEPT !.summary = "summary"]
      [] s = STREAMS.SUMMARIZATION -> m

(***************************************************************************)
(* sendTelegramMessage(chatId, text): the text is sent, or the failure is  *)
(* logged and a TelegramError is thrown.  Callers send only "if (chatId)"; *)
(* chat 0 stands for a message without chatId.                             *)
(***************************************************************************)
TgOutcomes == {"sent", "failed"}

\* the send throws into its caller
TgThrows(chat, tg) == chat # 0 /\ tg = "failed"

\* the final notifications after a success / failure notice went to chat
FinalSent(f, chat, tg) ==
    IF chat # 0 /\ tg = "sent" THEN [f EXCEPT ![chat] = @ + 1] ELSE f

\* the chats of stage s whose callback had a send fail
TgFailedAfter(t, s, chat, tg) ==
    IF TgThrows(chat, tg) THEN [t EXCEPT ![s] = @ \cup {chat}] ELSE t

(***************************************************************************)
(* ContentSummarizer.processMessage: the retry loop around llm.invoke.     *)
(***************************************************************************)
maxRetries == 3
BackoffBaseMs == 1000
BackoffCapMs == 30000

\* what one llm.invoke + parseLLMResponse can come to: a parsed summary, a
\* reply that is not JSON, a JSON reply with an "error" field, a rejection
\* with another status, a rejection with status 429
LlmReplies == {"ok", "unparsable", "llmError", "status500", "status429"}

\* a backoff that halves instead of doubling
retryDelay_halving(n) ==
    IF BackoffBaseMs \div (2 ^ n) < BackoffCapMs
    THEN BackoffBaseMs \div (2 ^ n) ELSE BackoffCapMs

\* Math.min(1000 * Math.pow(2, retryCount), 30000)
retryDelay(n) ==
    IF BackoffBaseMs * (2 ^ n) < BackoffCapMs
    THEN BackoffBaseMs * (2 ^ n) ELSE BackoffCapMs

\* a notice that announces the delay in milliseconds
announcedSeconds_ms(ms) == ms

\* the notice "Retrying in ${retryDelay / 1000} seconds..."
announcedSeconds(ms) == ms \div 1000

\* a catch block that retries whatever the failure
retryable_any(reply) == reply # "ok"

\* "error.status === 429"
retryable(reply) == reply = "status429"

\* a retry counter kept on the instance: it carries over from the last call
retryCountAtEntry_carried(previous) == previous

\* "let retryCount = 0": a local of the invocation
retryCountAtEntry(previous) == 0

\* the messages processMessage is called with: a fetched transcript or a
\* scraped page, from one of the chats or without chatId (chat 0)
SummarizerInputs ==
    {[NewMessage(c, u) EXCEPT !.platform = detectPlatform(u),
                              !.content = IF detectPlatform(u) = "youtube"
                                          THEN "transcript" ELSE "page"] :
        c \in 0..MaxIngest, u \in {Urls[i] : i \in 1..Len(Urls)}}

\* the envelope processMessage returns: the parsed summary, or the fallback
\* built once the retries are used up
summarizerReturn(m, out) ==
    IF out = "result" THEN [m EXCEPT !.summary = "summary"]
    ELSE [m EXCEPT !.summary = "unavailable"]

\* processMessage(message), up to the loop: the "Processing content" notice
processMessage(m, tg) ==
    /\ spc = "idle"
    /\ smsg' = m
    /\ retryCount' = retryCountAtEntry(retryCount)
    /\ calls' = <<>>
    /\ sleeps' = <<>>
    /\ notices' = <<>>
    /\ IF TgThrows(m.chatId, tg)
       THEN spc' = "done" /\ sout' = "threw" /\ lastError' = "TelegramError"
       ELSE spc' = "attempt" /\ sout' = "none" /\ lastError' = "none"
    /\ collabFailed' = (collabFailed \/ TgThrows(m.chatId, tg))
    /\ tgFailed' = TgFailedAfter(tgFailed, STREAMS.SCRAPING, m.chatId, tg)
    /\ UNCHANGED <<finals, archiverCalls, pages, sumFailed>>

\* one turn of the loop: llm.invoke, parseLLMResponse, and the catch block up
\* to its setTimeout.  tg is the outcome of the notice the turn sends, if any
llmInvoke(reply, tg) ==
    /\ spc = "attempt"
    /\ calls' = Append(calls, reply)
    /\ collabFailed' = (collabFailed \/ reply # "ok" \/
                        (reply \in {"unparsable", "status429"} /\ TgThrows(smsg.chatId, tg)))
    /\ notices' = IF retryable(reply) /\ smsg.chatId # 0 /\ tg = "sent"
                   THEN Append(notices, announcedSeconds(retryDelay(retryCount)))
                   ELSE notices
    /\ CASE reply = "ok" ->
              /\ spc' = "done" /\ sout' = "result"
              /\ UNCHANGED <<lastError, finals, tgFailed, sumFailed>>
         [] reply # "ok" /\ retryable(reply) ->
              /\ IF TgThrows(smsg.chatId, tg)
                 THEN spc' = "done" /\ sout' = "threw" /\ lastError' = "TelegramError"
                 ELSE spc' = "sleep" /\ sout' = sout /\ lastError' = reply
              /\ tgFailed' = TgFailedAfter(tgFailed, STREAMS.SCRAPING, smsg.chatId, tg)
              /\ sumFailed' = IF TgThrows(smsg.chatId, tg)
                              THEN sumFailed \cup {smsg.chatId} ELSE sumFailed
              /\ UNCHANGED finals
         [] reply = "unparsable" /\ ~retryable(reply) ->
              /\ spc' = "done" /\ sout' = "threw"
              /\ lastError' = IF TgThrows(smsg.chatId, tg)
                              THEN "TelegramError" ELSE "PARSE_ERROR"
              /\ finals' = FinalSent(finals, smsg.chatId, tg)
              /\ tgFailed' = TgFailedAfter(tgFailed, STREAMS.SCRAPING, smsg.chatId, tg)
              /\ sumFailed' = sumFailed \cup {smsg.chatId}
         [] OTHER ->
              /\ spc' = "done" /\ sout' = "threw"
              /\ lastError' = reply
              /\ sumFailed' = sumFailed \cup {smsg.chatId}
              /\ UNCHANGED <<finals, tgFailed>>
    /\ UNCHANGED <<smsg, retryCount, sleeps, archiverCalls, pages>>

\* the setTimeout of the catch block has fired: retryCount++ and the while test
backoffElapsed ==
    /\ spc = "sleep"
    /\ sleeps' = Append(sleeps, retryDelay(retryCount))
    /\ retryCount' = retryCount + 1
    /\ spc' = IF retryCount + 1 < maxRetries THEN "attempt" ELSE "exhausted"
    /\ UNCHANGED <<smsg, lastError, calls, notices, sout, pipeVars>>

\* after the loop: the "Unable to generate summary" notice, then the fallback
\* response is returned
retriesExhausted(tg) ==
    /\ spc = "exhausted"
    /\ spc' = "done"
    /\ IF TgThrows(smsg.chatId, tg)
       THEN sout' = "threw" /\ lastError' = "TelegramError"
       ELSE sout' = "fallback" /\ lastError' = lastError
    /\ finals' = FinalSent(finals, smsg.chatId, tg)
    /\ collabFailed' = (collabFailed \/ TgThrows(smsg.chatId, tg))
    /\ tgFailed' = TgFailedAfter(tgFailed, STREAMS.SCRAPING, smsg.chatId, tg)
    /\ sumFailed' = sumFailed \cup {smsg.chatId}
    /\ UNCHANGED <<smsg, retryCount, calls, sleeps, notices, archiverCalls, pages>>

\* the summarizer called on its own
SummarizeNext ==
    \/ \E m \in SummarizerInputs, tg \in TgOutcomes :
          processMessage(m, tg) /\ UNCHANGED <<busVars, govVars, ytVars, connVars, hookVars>>
    \/ \E reply \in LlmReplies, tg \in TgOutcomes :
          llmInvoke(reply, tg) /\ UNCHANGED <<busVars, govVars, ytVars, connVars, hookVars>>
    \/ backoffElapsed /\ UNCHANGED <<busVars, govVars, ytVars, connVars, hookVars>>
    \/ \E tg \in TgOutcomes :
          retriesExhausted(tg) /\ UNCHANGED <<busVars, govVars, ytVars, connVars, hookVars>>

SpecSummarize == Init /\ [][SummarizeNext]_vars

(***************************************************************************)
(* MessageBus operations.                                                  *)
(***************************************************************************)
\* clearStreams that deletes nothing
clearStreams_keep(f, empty) == f

\* clearStreams: DEL of every stream of this.streams; the key's entries, its
\* last generated id and its consumer groups go with it
clearStreams(f, empty) == [s \in StreamNames |-> empty]

\* publish(stream, message): XADD stream * message <json>
publish(s, m) ==
    /\ stream' = [stream EXCEPT ![s] = Append(@, [id |-> XAddId(s), message |-> m])]
    /\ lastId' = [lastId EXCEPT ![s] = XAddId(s)]
    /\ published' = [published EXCEPT ![s] = Append(@, XAddId(s))]

\* subscribe(), up to the first XREADGROUP: the group is created if absent
subscribeStart(g, s, k) == [g EXCEPT ![s] = XGroupCreate(@)]

(***************************************************************************)
(* Process start: setupMessageFlow.  clearStreams is awaited, the four     *)
(* subscribe() calls issue their XGROUP CREATE, then the ingestion         *)
(* processor is given the bus.                                             *)
(***************************************************************************)
setupMessageFlow ==
    /\ proc = "down"
    /\ run < MaxRuns
    /\ proc' = "running"
    /\ run' = run + 1
    /\ busSet' = TRUE
    /\ stream' = clearStreams(stream, <<>>)
    /\ group' = [s \in StreamNames |->
                    IF s \in Stages
                    THEN XGroupCreate(clearStreams(group, NoGroup)[s])
                    ELSE clearStreams(group, NoGroup)[s]]
    /\ pc' = [s \in Stages |-> [k \in Consumers |-> IF k = 1 THEN "poll" ELSE "idle"]]
    /\ cur' = [s \in Stages |-> [k \in Consumers |-> NoEntry]]
    /\ handled' = [s \in Stages |-> <<>>]
    /\ failed' = [s \in Stages |-> {}]
    /\ acked' = [s \in Stages |-> {}]
    /\ UNCHANGED <<sideVars, lastId, ingested, published, atShutdown>>

\* SIGTERM / SIGINT / crash: process.exit ends every loop; Redis keeps its state
Shutdown ==
    /\ proc = "running"
    /\ proc' = "down"
    /\ busSet' = FALSE
    /\ pc' = [s \in Stages |-> [k \in Consumers |-> "idle"]]
    /\ cur' = [s \in Stages |-> [k \in Consumers |-> NoEntry]]
    /\ atShutdown' = [s \in Stages |-> PelIds(s)]
    /\ UNCHANGED <<sideVars, run, ingested, redisVars, published, handled, failed,
                   acked>>

\* IngestionProcessor: a valid URL arrives and is published to the ingestion stream
Ingest ==
    /\ proc = "running"
    /\ busSet
    /\ ingested < MaxIngest
    /\ ingested' = ingested + 1
    /\ publish(STREAMS.INGESTION, NewMessage(ingested + 1, UrlOf(ingested + 1)))
    /\ UNCHANGED <<sideVars, proc, run, busSet, group, pc, cur, handled, failed, acked, atShutdown>>

\* subscribe(): XREADGROUP returned one entry; it is parsed and the callback
\* is invoked on it.  (A poll that times out changes nothing.)
Poll(s, k) ==
    /\ pc[s][k] = "poll"
    /\ group[s].exists
    /\ Undelivered(s) # {}
    /\ LET e == stream[s][Min(Undelivered(s))]
       IN /\ group' = [group EXCEPT ![s] =
                 [@ EXCEPT !.lastDelivered = e.id,
                           !.pel = XReadGroupPel(@, k, e.id)]]
          /\ cur' = [cur EXCEPT ![s][k] = e]
          /\ handled' = [handled EXCEPT ![s] = Append(@, e.id)]
    /\ pc' = [pc EXCEPT ![s][k] = "handling"]
    /\ UNCHANGED <<sideVars, proc, run, busSet, stream, lastId, ingested, published,
                   failed, acked, atShutdown>>

\* the callback returns: the stage's result has been published downstream
HandlerReturn(s, k) ==
    /\ pc[s][k] = "handling"
    /\ IF NextStream(s) = "none"
       THEN UNCHANGED <<sideVars, stream, lastId, published>>
       ELSE publish(NextStream(s), StageResult(s, cur[s][k].message))
    /\ pc' = [pc EXCEPT ![s][k] = "acking"]
    /\ UNCHANGED <<sideVars, proc, run, busSet, group, cur, ingested, handled, failed,
                   acked, atShutdown>>

\* the callback throws and the entry is acknowledged all the same (XACK in a
\* finally block)
HandlerThrow_acks(s, k) ==
    /\ pc[s][k] = "handling"
    /\ pc' = [pc EXCEPT ![s][k] = "dead"]
    /\ failed' = [failed EXCEPT ![s] = @ \cup {cur[s][k].id}]
    /\ group' = [group EXCEPT ![s] = [@ EXCEPT !.pel = XAck(@, cur[s][k].id)]]
    /\ acked' = [acked EXCEPT ![s] = @ \cup {cur[s][k].id}]
    /\ UNCHANGED <<sideVars, proc, run, busSet, stream, lastId, cur, ingested, published,
                   handled, atShutdown>>

\* the callback throws: subscribe() logs and rethrows, the loop is over
HandlerThrow(s, k) ==
    /\ pc[s][k] = "handling"
    /\ pc' = [pc EXCEPT ![s][k] = "dead"]
    /\ failed' = [failed EXCEPT ![s] = @ \cup {cur[s][k].id}]
    /\ UNCHANGED <<sideVars, proc, run, busSet, redisVars, cur, ingested, published,
                   handled, acked, atShutdown>>

\* subscribe(): XACK after the callback returned, then back to XREADGROUP
Ack(s, k) ==
    /\ pc[s][k] = "acking"
    /\ group' = [group EXCEPT ![s] = [@ EXCEPT !.pel = XAck(@, cur[s][k].id)]]
    /\ acked' = [acked EXCEPT ![s] = @ \cup {cur[s][k].id}]
    /\ pc' = [pc EXCEPT ![s][k] = "poll"]
    /\ cur' = [cur EXCEPT ![s][k] = NoEntry]
    /\ UNCHANGED <<sideVars, proc, run, busSet, stream, lastId, ingested, published,
                   handled, failed, atShutdown>>

\* claimPendingMessage(stream, group, consumer, id): returns the claimed entries
claimPendingMessage(s, k, id) ==
    /\ proc = "running"
    /\ group[s].exists
    /\ \A p \in group[s].pel : p.id = id => p.deliveryCount < MaxDelivery
    /\ group' = [group EXCEPT ![s] = [@ EXCEPT !.pel = XClaim(@, k, id)]]
    /\ UNCHANGED <<sideVars, proc, run, busSet, stream, lastId, pc, cur, ingested,
                   published, handled, failed, acked, atShutdown>>

\* a further subscribe(stream, group, consumer 2, callback) on a running bus
Subscribe2(s) ==
    /\ proc = "running"
    /\ s \in BusStages
    /\ pc[s][2] = "idle"
    /\ group' = subscribeStart(group, s, 2)
    /\ pc' = [pc EXCEPT ![s][2] = "poll"]
    /\ UNCHANGED <<sideVars, proc, run, busSet, stream, lastId, cur, ingested, histVars>>

(***************************************************************************)
(* The four callbacks setupMessageFlow subscribes, statement by statement. *)
(* Each runs on the entry its loop (consumer 1) was handed; what a         *)
(* collaborator or a send throws is not caught and leaves the callback.    *)
(***************************************************************************)
CollabReplies == {"ok", "failed"}

\* a subscribe() that acknowledges the entry although its callback threw
callbackThrows_acks(s) ==
    /\ pc' = [pc EXCEPT ![s][1] = "dead"]
    /\ failed' = [failed EXCEPT ![s] = @ \cup {cur[s][1].id}]
    /\ group' = [group EXCEPT ![s] = [@ EXCEPT !.pel = XAck(@, cur[s][1].id)]]
    /\ acked' = [acked EXCEPT ![s] = @ \cup {cur[s][1].id}]
    /\ UNCHANGED <<proc, run, busSet, stream, lastId, cur, ingested, published,
                   handled, atShutdown>>

\* the callback of stage s throws into subscribe()
callbackThrows(s) ==
    /\ pc' = [pc EXCEPT ![s][1] = "dead"]
    /\ failed' = [failed EXCEPT ![s] = @ \cup {cur[s][1].id}]
    /\ UNCHANGED <<proc, run, busSet, redisVars, cur, ingested, published,
                   handled, acked, atShutdown>>

\* the callback of stage s returns after publishing m to the next stream
callbackReturns(s, m) ==
    /\ pc' = [pc EXCEPT ![s][1] = "acking"]
    /\ IF NextStream(s) = "none"
       THEN UNCHANGED <<stream, lastId, published>>
       ELSE publish(NextStream(s), m)
    /\ UNCHANGED <<proc, run, busSet, group, cur, ingested, handled, failed,
                   acked, atShutdown>>

\* Ingestion -> Platform Detection
DetectCallback(tg) ==
    LET s == STREAMS.INGESTION
        m == cur[s][1].message
        result == StageResult(s, m)
        chat == IF result.platform # "none" THEN m.chatId ELSE 0
    IN /\ pc[s][1] = "handling"
       /\ IF TgThrows(chat, tg) THEN callbackThrows(s) ELSE callbackReturns(s, result)
       /\ collabFailed' = (collabFailed \/ TgThrows(chat, tg))
       /\ tgFailed' = TgFailedAfter(tgFailed, s, chat, tg)
       /\ UNCHANGED <<govVars, ytVars, sumVars, connVars, hookVars, finals, archiverCalls,
                      pages, sumFailed>>

\* Platform Detection -> YouTube or Content Scraping
FetchCallback(tg1, reply, tg2) ==
    LET s == STREAMS.PLATFORM_DETECTION
        m == cur[s][1].message
        \* the second notice is sent on the YouTube branch only
        chat2 == IF m.platform = "youtube" THEN m.chatId ELSE 0
        sendFails == TgThrows(m.chatId, tg1) \/ (reply = "ok" /\ TgThrows(chat2, tg2))
    IN /\ pc[s][1] = "handling"
       /\ IF sendFails \/ reply = "failed"
          THEN callbackThrows(s) ELSE callbackReturns(s, StageResult(s, m))
       /\ collabFailed' = (collabFailed \/ sendFails \/ reply = "failed")
       /\ tgFailed' = IF sendFails THEN [tgFailed EXCEPT ![s] = @ \cup {m.chatId}]
                      ELSE tgFailed
       /\ UNCHANGED <<govVars, ytVars, sumVars, connVars, hookVars, finals, archiverCalls,
                      pages, sumFailed>>

\* Content Scraping/YouTube -> Summarization: the "Starting content
\* summarization" notice, then contentSummarizer.processMessage is entered
SummarizeCallback(tg0, tg) ==
    LET s == STREAMS.SCRAPING
        m == cur[s][1].message
    IN /\ pc[s][1] = "handling"
       /\ spc = "idle"
       /\ IF TgThrows(m.chatId, tg0)
          THEN /\ callbackThrows(s)
               /\ collabFailed' = TRUE
               /\ tgFailed' = TgFailedAfter(tgFailed, s, m.chatId, tg0)
               /\ UNCHANGED <<sumVars, finals, archiverCalls, pages, sumFailed>>
          ELSE /\ processMessage(m, tg)
               /\ UNCHANGED busVars
       /\ UNCHANGED <<govVars, ytVars, connVars, hookVars>>

\* contentSummarizer.processMessage is over: its envelope is published, or
\* what it threw leaves the callback
SummarizeCallbackEnd ==
    LET s == STREAMS.SCRAPING
    IN /\ pc[s][1] = "handling"
       /\ spc = "done"
       /\ spc' = "idle"
       /\ IF sout = "threw"
          THEN callbackThrows(s)
          ELSE callbackReturns(s, summarizerReturn(smsg, sout))
       /\ UNCHANGED <<govVars, ytVars, connVars, hookVars, pipeVars, smsg, retryCount,
                      lastError, calls, sleeps, notices, sout>>

\* Summarization -> Notion.  NotionProcessor.processMessage requires platform
\* and url, creates the page and sends the "Content saved" notice
ArchiveCallback(tg1, reply, tg2) ==
    LET s == STREAMS.SUMMARIZATION
        m == cur[s][1].message
        invoked == ~m.summarizationFailed /\ ~TgThrows(m.chatId, tg1)
        created == invoked /\ m.platform # "none" /\ reply = "ok"
        sendFails == TgThrows(m.chatId, tg1) \/ (created /\ TgThrows(m.chatId, tg2))
        throws == sendFails \/ (invoked /\ ~created)
    IN /\ pc[s][1] = "handling"
       /\ IF throws THEN callbackThrows(s) ELSE callbackReturns(s, m)
       /\ archiverCalls' = IF invoked THEN Append(archiverCalls, m.chatId)
                           ELSE archiverCalls
       /\ pages' = IF created THEN pages \cup {m.chatId} ELSE pages
       /\ finals' = IF m.summarizationFailed THEN FinalSent(finals, m.chatId, tg1)
                    ELSE IF created THEN FinalSent(finals, m.chatId, tg2)
                    ELSE finals
       /\ collabFailed' = (collabFailed \/ sendFails \/
                           (invoked /\ m.platform # "none" /\ reply = "failed"))
       /\ tgFailed' = IF sendFails THEN [tgFailed EXCEPT ![s] = @ \cup {m.chatId}]
                      ELSE tgFailed
       /\ UNCHANGED <<govVars, ytVars, sumVars, connVars, hookVars, sumFailed>>

\* the pipeline: ingestion, the four loops and their callbacks
PipelineNext ==
    \/ setupMessageFlow
    \/ Ingest
    \/ \E s \in Stages : Poll(s, 1)
    \/ \E s \in Stages : Ack(s, 1)
    \/ \E tg \in TgOutcomes : DetectCallback(tg)
    \/ \E tg1 \in TgOutcomes, reply \in CollabReplies, tg2 \in TgOutcomes :
          FetchCallback(tg1, reply, tg2)
    \/ \E tg0 \in TgOutcomes, tg \in TgOutcomes : SummarizeCallback(tg0, tg)
    \/ \E reply \in LlmReplies, tg \in TgOutcomes :
          llmInvoke(reply, tg) /\ UNCHANGED <<busVars, govVars, ytVars, connVars, hookVars>>
    \/ backoffElapsed /\ UNCHANGED <<busVars, govVars, ytVars, connVars, hookVars>>
    \/ \E tg \in TgOutcomes :
          retriesExhausted(tg) /\ UNCHANGED <<busVars, govVars, ytVars, connVars, hookVars>>
    \/ SummarizeCallbackEnd
    \/ \E tg1 \in TgOutcomes, reply \in CollabReplies, tg2 \in TgOutcomes :
          ArchiveCallback(tg1, reply, tg2)

SpecPipeline == Init /\ [][PipelineNext]_vars

Next ==
    \/ setupMessageFlow
    \/ Ingest
    \/ \E s \in Stages : Poll(s, 1)
    \/ \E s \in Stages : HandlerReturn(s, 1)
    \/ \E s \in Stages : HandlerThrow(s, 1)
    \/ \E s \in Stages : Ack(s, 1)
    \/ \E s \in BusStages, k \in Consumers, i \in 1..MaxIngest :
          i <= Len(stream[s]) /\ claimPendingMessage(s, k, stream[s][i].id)

Spec == Init /\ [][Next]_vars

\* the bus with a second consumer attached to a group
BusNext ==
    \/ Next
    \/ \E s \in BusStages : Subscribe2(s)
    \/ \E s \in BusStages : Poll(s, 2)
    \/ \E s \in BusStages : HandlerReturn(s, 2)
    \/ \E s \in BusStages : HandlerThrow(s, 2)
    \/ \E s \in BusStages : Ack(s, 2)

SpecBus == Init /\ [][BusNext]_vars

\* subscribe(): XGROUP CREATE fails with an error other than BUSYGROUP (the
\* key holds another type, the connection is lost); the inner catch rethrows
\* it, the outer one logs and rethrows: the loop is never entered
SubscribeAborts(s) ==
    /\ proc = "running"
    /\ s \in BusStages
    /\ pc[s][2] = "idle"
    /\ pc' = [pc EXCEPT ![s][2] = "dead"]
    /\ UNCHANGED <<sideVars, proc, run, busSet, redisVars, cur, ingested, histVars>>

\* the bus with further subscribe() calls that succeed or fail at the creation
SubscribeNext ==
    \/ BusNext
    \/ \E s \in BusStages : SubscribeAborts(s)

SpecSubscribe == Init /\ [][SubscribeNext]_vars

\* ContentSummarizer.createErrorResponse: the envelope process() returns when
\* the LLM reports an error or the summarization throws
createErrorResponse(m) ==
    [m EXCEPT !.summary = "unable", !.summarizationFailed = TRUE]

\* the envelopes ContentSummarizer.process returns for the n-th link: with a
\* summary, or flagged by createErrorResponse; from chat n or without chatId
ProcessResults(n) ==
    LET fetched(c) == StageResult(STREAMS.PLATFORM_DETECTION,
                          StageResult(STREAMS.INGESTION, NewMessage(c, UrlOf(n))))
    IN {StageResult(STREAMS.SCRAPING, fetched(c)) : c \in {0, n}}
       \cup {createErrorResponse(fetched(c)) : c \in {0, n}}

\* messageBus.publish(STREAMS.SUMMARIZATION, envelope) by a producer that
\* summarizes with ContentSummarizer.process
PublishSummarized(m) ==
    /\ proc = "running"
    /\ Len(published[STREAMS.SUMMARIZATION]) < MaxIngest
    /\ m \in ProcessResults(Len(published[STREAMS.SUMMARIZATION]) + 1)
    /\ publish(STREAMS.SUMMARIZATION, m)
    /\ UNCHANGED <<sideVars, proc, run, busSet, group, pc, cur, ingested, handled,
                   failed, acked, atShutdown>>

\* the archiving stage on its own: its stream, its loop and its callback
ArchiveNext ==
    \/ setupMessageFlow
    \/ \E n \in 1..MaxIngest : \E m \in ProcessResults(n) : PublishSummarized(m)
    \/ Poll(STREAMS.SUMMARIZATION, 1)
    \/ \E tg1 \in TgOutcomes, reply \in CollabReplies, tg2 \in TgOutcomes :
          ArchiveCallback(tg1, reply, tg2)
    \/ Ack(STREAMS.SUMMARIZATION, 1)

SpecArchive == Init /\ [][ArchiveNext]_vars

\* the pipeline over process exits and restarts
RestartNext ==
    \/ setupMessageFlow
    \/ Shutdown
    \/ Ingest
    \/ \E s \in Stages : Poll(s, 1)
    \/ \E s \in Stages : HandlerReturn(s, 1)
    \/ \E s \in Stages : HandlerThrow(s, 1)
    \/ \E s \in Stages : Ack(s, 1)

SpecRestart == Init /\ [][RestartNext]_vars

\* the governor alone: checkQuota calls, checkRateLimit calls
SpecQuota == InitMonitor /\ [][QuotaNext]_vars

SpecRate == InitMonitor /\ [][RateNext]_vars

\* the governor under checkQuota and checkRateLimit calls in any order
GovernorNext ==
    \/ QuotaNext
    \/ RateNext

SpecGovernor == InitMonitor /\ [][GovernorNext]_vars

\* checkQuota(cost) called with any non-negative cost
AnyCosts == 0..MaxCost

QuotaCostsNext ==
    \/ GovTick /\ UNCHANGED <<busVars, workVars>>
    \/ \E c \in AnyCosts : checkQuota(c) /\ UNCHANGED <<busVars, workVars>>

\* a governor built at instant 0 with any quotaLimit and the smallest rate
\* settings (checkQuota reads neither rateLimit nor rateWindowMs)
InitQuota ==
    /\ InitBus
    /\ InitWork
    /\ now = 0
    /\ qlog = <<>>
    /\ rlog = <<>>
    /\ \E l \in 1..MaxQuotaLimit : gov = MonitoringProcessor(l, 1, 1, 0)

SpecQuotaCosts == InitQuota /\ [][QuotaCostsNext]_vars

(***************************************************************************)
(* The bus's one Redis connection (this.redis).  Every command of every    *)
(* loop and of the ingestion processor is written to it; Redis executes a  *)
(* connection's commands in the order received, and a client blocked in    *)
(* XREADGROUP ... BLOCK executes nothing further until data arrives for it *)
(* or the block times out.  The head of conn is the command being          *)
(* executed; it is removed when its reply has been read.                   *)
(***************************************************************************)
BlockMs == 2000

IngestionOwner == "ingestion-processor"

Queued(owner) == \E i \in 1..Len(conn) : conn[i].owner = owner

ConnHead(op, owner) ==
    /\ conn # <<>>
    /\ conn[1].op = op
    /\ conn[1].owner = owner

\* the command at the head has been executed and its reply is on its way
HeadDone ==
    /\ conn # <<>>
    /\ IF conn[1].owner = IngestionOwner THEN ingested >= conn[1].n
       ELSE CASE conn[1].op = "XREADGROUP" -> pc[conn[1].owner][1] # "poll"
              [] conn[1].op = "XADD" -> pc[conn[1].owner][1] # "handling"
              [] conn[1].op = "XACK" -> pc[conn[1].owner][1] # "acking"

\* the XREADGROUP at the head has nothing to return and blocks
HeadBlocked ==
    /\ conn # <<>>
    /\ conn[1].op = "XREADGROUP"
    /\ ~HeadDone
    /\ Undelivered(conn[1].owner) = {}

ConnSend(op, owner, n) ==
    /\ ~Queued(owner)
    /\ conn' = Append(conn, [op |-> op, owner |-> owner, n |-> n])
    /\ UNCHANGED <<busVars, govVars, ytVars, sumVars, pipeVars, hookVars, blocked, delay>>

\* subscribe(): this.redis.xreadgroup(... 'BLOCK', 2000 ...) is issued
ConnSendPoll(s) == proc = "running" /\ pc[s][1] = "poll" /\ ConnSend("XREADGROUP", s, 0)

\* the callback's messageBus.publish: this.redis.xadd is issued
ConnSendPublish(s) ==
    pc[s][1] = "handling" /\ NextStream(s) # "none" /\ ConnSend("XADD", s, 0)

\* subscribe(): this.redis.xack is issued
ConnSendAck(s) == pc[s][1] = "acking" /\ ConnSend("XACK", s, 0)

\* IngestionProcessor.processMessage: this.redis.xadd to stream:ingestion is issued
ConnSendIngest ==
    /\ proc = "running"
    /\ busSet
    /\ ingested < MaxIngest
    /\ ConnSend("XADD", IngestionOwner, ingested + 1)

\* Redis executes the command at the head of the connection
ConnExec ==
    \/ \E s \in Stages : ConnHead("XREADGROUP", s) /\ Poll(s, 1)
    \/ \E s \in Stages : ConnHead("XADD", s) /\ HandlerReturn(s, 1)
    \/ \E s \in Stages : ConnHead("XACK", s) /\ Ack(s, 1)
    \/ ConnHead("XADD", IngestionOwner) /\ ~HeadDone /\ Ingest

\* a callback that publishes nothing returns, or a callback throws
ConnCallbackEnds(s) ==
    /\ ~Queued(s)
    /\ \/ NextStream(s) = "none" /\ HandlerReturn(s, 1)
       \/ HandlerThrow(s, 1)

\* the reply of the executed command is read: the next command is executed
ConnReply ==
    /\ HeadDone
    /\ conn' = Tail(conn)
    /\ blocked' = 0
    /\ UNCHANGED <<busVars, govVars, ytVars, sumVars, pipeVars, hookVars, delay>>

\* time passes while the XREADGROUP at the head blocks; the commands queued
\* behind it wait
ConnBlock ==
    /\ HeadBlocked
    /\ blocked < BlockMs
    /\ blocked' = blocked + BlockMs \div 2
    /\ delay' = IF Len(conn) >= 2 /\ delay < MaxDelay * BlockMs
                THEN delay + BlockMs \div 2 ELSE delay
    /\ UNCHANGED <<busVars, govVars, ytVars, sumVars, pipeVars, hookVars, conn>>

\* the block timed out: XREADGROUP replies null and the loop goes round
ConnTimeout ==
    /\ HeadBlocked
    /\ blocked >= BlockMs
    /\ conn' = Tail(conn)
    /\ blocked' = 0
    /\ UNCHANGED <<busVars, govVars, ytVars, sumVars, pipeVars, hookVars, delay>>

ConnNext ==
    \/ setupMessageFlow
    \/ \E s \in Stages : ConnSendPoll(s)
    \/ \E s \in Stages : ConnSendPublish(s)
    \/ \E s \in Stages : ConnSendAck(s)
    \/ ConnSendIngest
    \/ ConnExec
    \/ \E s \in Stages : ConnCallbackEnds(s)
    \/ ConnReply
    \/ ConnBlock
    \/ ConnTimeout

SpecConn == Init /\ [][ConnNext]_vars

(***************************************************************************)
(* Fairness: the event loop resumes every loop whose awaited Redis reply   *)
(* or callback result is available, and every callback terminates.         *)
(***************************************************************************)
LoopFairness(s, k) ==
    /\ WF_vars(Poll(s, k))
    /\ WF_vars(HandlerReturn(s, k) \/ HandlerThrow(s, k))
    /\ WF_vars(Ack(s, k))

FairSpec ==
    /\ Spec
    /\ WF_vars(setupMessageFlow)
    /\ \A s \in Stages : LoopFairness(s, 1)

FairSpecBus ==
    /\ SpecBus
    /\ WF_vars(setupMessageFlow)
    /\ \A s \in Stages : LoopFairness(s, 1)
    /\ \A s \in BusStages : LoopFairness(s, 2)

\* the pipeline under the same scheduling: every loop is resumed, every
\* collaborator call and every timer ends
FairSpecPipeline ==
    /\ SpecPipeline
    /\ WF_vars(setupMessageFlow)
    /\ \A s \in Stages : WF_vars(Poll(s, 1)) /\ WF_vars(Ack(s, 1))
    /\ WF_vars(\E tg \in TgOutcomes : DetectCallback(tg))
    /\ WF_vars(\E tg1 \in TgOutcomes, reply \in CollabReplies, tg2 \in TgOutcomes :
                  FetchCallback(tg1, reply, tg2))
    /\ WF_vars(\E tg0 \in TgOutcomes, tg \in TgOutcomes : SummarizeCallback(tg0, tg))
    /\ WF_vars(\E reply \in LlmReplies, tg \in TgOutcomes :
                  llmInvoke(reply, tg) /\ UNCHANGED <<busVars, govVars, ytVars, connVars, hookVars>>)
    /\ WF_vars(backoffElapsed /\ UNCHANGED <<busVars, govVars, ytVars, connVars, hookVars>>)
    /\ WF_vars(\E tg \in TgOutcomes :
                  retriesExhausted(tg) /\ UNCHANGED <<busVars, govVars, ytVars, connVars, hookVars>>)
    /\ WF_vars(SummarizeCallbackEnd)
    /\ WF_vars(\E tg1 \in TgOutcomes, reply \in CollabReplies, tg2 \in TgOutcomes :
                  ArchiveCallback(tg1, reply, tg2))

(***************************************************************************)
(* Auxiliary definitions for the properties.                               *)
(***************************************************************************)
Range(q) == {q[i] : i \in 1..Len(q)}

Count(q, x) == Cardinality({i \in 1..Len(q) : q[i] = x})

\* the i-th entry of stream s has been handed to the group's callback
Delivered(s, i) == i <= Len(stream[s]) /\ stream[s][i].id \in Range(handled[s])

\* id is pending for consumer k after at least one claimPendingMessage
Reclaimed(s, k, id) ==
    \E p \in group[s].pel : p.id = id /\ p.consumer = k /\ p.deliveryCount >= 2

(***************************************************************************)
(* C1: an entry is acknowledged only after its callback returned without   *)
(* throwing; an entry whose callback threw is never acknowledged, stays in *)
(* the group's pending set, and the callback is not invoked on it again.   *)
(***************************************************************************)
C1_AckOnlyOnSuccess ==
    \A s \in Stages :
        /\ acked[s] \cap failed[s] = {}
        /\ acked[s] \subseteq Range(handled[s])
        /\ \A k \in Consumers :
              pc[s][k] = "handling" => cur[s][k].id \notin acked[s]
        /\ \A id \in failed[s] :
              id \in PelIds(s) /\ Count(handled[s], id) = 1

C1_Witness ==
    \E s \in Stages :
        /\ failed[s] # {}
        /\ acked[s] # {}
        /\ \E id \in failed[s] : Reclaimed(s, 2, id)

(***************************************************************************)
(* C2: once the subscriptions have started, every entry appended to a      *)
(* stream is eventually delivered to the group's callback, whatever the    *)
(* callback did (return or throw) on earlier entries of that stream.       *)
(***************************************************************************)
C2_EveryEntryDelivered ==
    \A s \in Stages : \A i \in 1..MaxIngest :
        (i <= Len(stream[s])) ~> Delivered(s, i)

C4_DeliveredStaysPending ==
    \A s \in Stages : \A id \in Range(handled[s]) \ acked[s] :
        \E p \in getPendingMessages(s) : p.id = id

C4_Witness ==
    \E s \in BusStages :
        /\ Cardinality(getPendingMessages(s)) = 2
        /\ failed[s] # {}
        /\ \E p \in getPendingMessages(s) : p.deliveryCount >= 2

(***************************************************************************)
(* C5: once an entry has been acknowledged for a group, no step delivers   *)
(* it again: no poll hands it to the callback and no claimPendingMessage   *)
(* makes it pending for a consumer.                                        *)
(***************************************************************************)
C5_NoRedeliveryAfterAck ==
    [][\A s \in Stages : \A id \in acked[s] :
          /\ id \notin PelIds(s)'
          /\ Count(handled'[s], id) = Count(handled[s], id)]_vars

C5_Witness ==
    \E s \in BusStages : \E id \in acked[s] :
        /\ \E p \in group[s].pel : IdLess(id, p.id) /\ p.deliveryCount >= 2
        /\ pc[s][1] = "dead"
        /\ pc[s][2] = "poll"

(***************************************************************************)
(* C6: the id returned by publish is greater than every id published to    *)
(* that stream before, ids within a stream are unique, and an appended     *)
(* entry is never modified.                                                *)
(***************************************************************************)
C6_IdsIncreaseEntriesImmutable ==
    [][\A s \in StreamNames :
          /\ \A i \in 1..Len(published'[s]) : \A j \in 1..Len(published'[s]) :
                i < j => IdLess(published'[s][i], published'[s][j])
          /\ \A i \in 1..Len(stream'[s]) : \A j \in 1..Len(stream'[s]) :
                i < j => IdLess(stream'[s][i].id, stream'[s][j].id)
          /\ \A i \in 1..Len(stream[s]) : \A j \in 1..Len(stream'[s]) :
                stream[s][i].id = stream'[s][j].id => stream[s][i] = stream'[s][j]]_vars

C6_Witness ==
    /\ run = 2
    /\ \E s \in StreamNames :
          /\ Len(published[s]) >= 2
          /\ Len(stream[s]) = 1

(***************************************************************************)
(* C7: claimPendingMessage on a pending entry makes the named consumer its *)
(* owner, adds one to its delivery count and leaves it pending; the        *)
(* stream's entries are unchanged.                                         *)
(***************************************************************************)
C7_ClaimReassigns ==
    [][\A s \in BusStages : \A k \in Consumers : \A p \in group[s].pel :
          claimPendingMessage(s, k, p.id) =>
              /\ [id |-> p.id, consumer |-> k,
                  deliveryCount |-> p.deliveryCount + 1] \in group'[s].pel
              /\ \A q \in group'[s].pel : q.id = p.id => q.consumer = k
              /\ stream' = stream]_vars

C7_Witness ==
    \E s \in BusStages : \E p \in group[s].pel :
        /\ p.consumer = 2
        /\ p.deliveryCount = 2
        /\ pc[s][2] = "idle"

(***************************************************************************)
(* C8 as stated: an entry whose callback failed and that was reclaimed for *)
(* a consumer whose loop is running is eventually handed to that           *)
(* consumer's callback again.                                              *)
(***************************************************************************)
C8_Original ==
    \A s \in BusStages : \A k \in Consumers : \A id \in 1..MaxIngest :
        (/\ id \in failed[s]
         /\ Reclaimed(s, k, id)
         /\ pc[s][k] = "poll")
        ~> (\/ Count(handled[s], id) >= 2
            \/ pc[s][k] = "dead")

(***************************************************************************)
(* C8 amended: claimPendingMessage only reassigns the pending entry and    *)
(* returns it to its caller; no subscription loop hands a reclaimed entry  *)
(* to a callback, and a reclaimed entry whose callback had failed stays    *)
(* pending.                                                                *)
(***************************************************************************)
C8_ReclaimedNotHandled ==
    [][\A s \in Stages : \A p \in group[s].pel :
          p.deliveryCount >= 2 =>
              /\ Count(handled'[s], p.id) = Count(handled[s], p.id)
              /\ p.id \in failed[s] => p.id \in PelIds(s)']_vars

C8_Witness ==
    \E s \in BusStages : \E id \in failed[s] :
        /\ Reclaimed(s, 2, id)
        /\ pc[s][2] = "poll"
        /\ Len(handled[s]) >= 2

(***************************************************************************)
(* C9: with unit cost, from quotaUsed = 0 within one day exactly the first *)
(* quotaLimit calls of checkQuota succeed and every further call that day  *)
(* throws; the first call made after the clock has passed quotaResetTime   *)
(* succeeds, charged on a quota that was reset to 0.                       *)
(***************************************************************************)
C9_QuotaPerDay ==
    (\A i \in 1..Len(qlog) : qlog[i].cost = 1) =>
        \A i \in 1..Len(qlog) :
            /\ qlog[i].t <= nextMidnight(0) => (qlog[i].ok <=> i <= gov.quotaLimit)
            /\ (/\ qlog[i].t > nextMidnight(0)
                /\ (i = 1 \/ qlog[i - 1].t <= nextMidnight(0)))
               => (qlog[i].ok /\ qlog[i].used = 1)

C9_Witness ==
    /\ Len(qlog) = gov.quotaLimit + 2
    /\ gov.quotaLimit = MaxQuotaLimit
    /\ ~qlog[gov.quotaLimit + 1].ok
    /\ qlog[gov.quotaLimit + 1].t = nextMidnight(0)
    /\ qlog[gov.quotaLimit + 2].t > nextMidnight(0)
    /\ qlog[gov.quotaLimit + 2].ok

(***************************************************************************)
(* C10: the first rateLimit calls of checkRateLimit made less than         *)
(* rateWindowMs after the first call succeed, every further call made      *)
(* less than rateWindowMs after the first throws, and the first call made  *)
(* rateWindowMs or more after the first succeeds.                          *)
(***************************************************************************)
C10_RateWindow ==
    \A i \in 1..Len(rlog) :
        /\ rlog[i].t - rlog[1].t < gov.rateWindowMs
              => (rlog[i].ok <=> i <= gov.rateLimit)
        /\ (/\ rlog[i].t - rlog[1].t >= gov.rateWindowMs
            /\ rlog[i - 1].t - rlog[1].t < gov.rateWindowMs)
           => rlog[i].ok

C10_Witness ==
    /\ Len(rlog) = gov.rateLimit + 2
    /\ gov.rateLimit = MaxRateLimit
    /\ gov.rateWindowMs = MaxWindow
    /\ ~rlog[gov.rateLimit + 1].ok
    /\ rlog[gov.rateLimit + 2].t = rlog[1].t + gov.rateWindowMs
    /\ rlog[gov.rateLimit + 2].ok

(***************************************************************************)
(* C11: in fetchVideoMetadata both governor checks run before the costed   *)
(* call: youtube.videos.list is invoked only after checkRateLimit and      *)
(* checkQuota both returned; when either throws, the call is not made for  *)
(* that request, no check is made a second time, and the request ends with *)
(* the governor's error.                                                   *)
(***************************************************************************)
C11_ChecksBeforeCostedCall ==
    \A i \in 1..Len(ylog) :
        LET r == ylog[i]
        IN /\ r.rateChecks <= 1 /\ r.quotaChecks <= 1 /\ r.list <= 1
           /\ r.list = 1 => r.rate = "ok" /\ r.quota = "ok"
           /\ (ypc = "list" /\ i = Len(ylog)) => r.rate = "ok" /\ r.quota = "ok"
           /\ r.rate = "fail" =>
                 /\ r.list = 0 /\ r.quotaChecks = 0
                 /\ r.outcome = "RateLimitExceeded"
                 /\ i = Len(ylog) => ypc = "idle"
           /\ r.quota = "fail" =>
                 /\ r.list = 0
                 /\ r.outcome = "QuotaExceeded"
                 /\ i = Len(ylog) => ypc = "idle"

C11_Witness ==
    /\ \E i \in 1..Len(ylog) : ylog[i].list = 1 /\ ylog[i].outcome = "metadata"
    /\ ylog[Len(ylog)].quota = "fail"
    /\ ypc = "idle"

(***************************************************************************)
(* C12: a processMessage call whose remote calls were answered 429, 429    *)
(* and then with a parsable summary returns the envelope with that         *)
(* summary, having slept exactly twice, the second delay not smaller than  *)
(* the first and no delay above the 30 s cap.                              *)
(***************************************************************************)
C12_TwoRetriesThenSuccess ==
    calls = <<"status429", "status429", "ok">> =>
        /\ spc = "done"
        /\ sout = "result"
        /\ summarizerReturn(smsg, sout).summary = "summary"
        /\ Len(sleeps) = 2
        /\ sleeps[1] <= sleeps[2]
        /\ \A i \in 1..Len(sleeps) : sleeps[i] <= BackoffCapMs

C12_Witness ==
    /\ calls = <<"status429", "status429", "ok">>
    /\ smsg.chatId # 0
    /\ sleeps = <<1000, 2000>>

C14_ExhaustionIsFailure ==
    (/\ spc = "done"
     /\ Len(calls) = maxRetries
     /\ \A i \in 1..Len(calls) : calls[i] = "status429")
    => sout = "threw"

\* the chats of the entries of stream s whose id is in ids
ChatsOf(s, ids) ==
    {stream[s][i].message.chatId : i \in {j \in 1..Len(stream[s]) : stream[s][j].id \in ids}}

\* the chats whose entry made the callback of stage s throw
FailedChats(s) == ChatsOf(s, failed[s])

\* the entries of stream s that carry the envelope of chat c
EntriesOf(s, c) == {i \in 1..Len(stream[s]) : stream[s][i].message.chatId = c}

(***************************************************************************)
(* C15: an envelope whose summarization ended without a summary (the reply *)
(* did not parse, or the three retries were used up) is never handed to    *)
(* NotionProcessor.processMessage, and if it is on the summarization       *)
(* stream it carries summarizationFailed = true.                           *)
(***************************************************************************)
C15_FailedNeverArchived ==
    \A c \in sumFailed :
        /\ c \notin Range(archiverCalls)
        /\ \A i \in EntriesOf(STREAMS.SUMMARIZATION, c) :
              stream[STREAMS.SUMMARIZATION][i].message.summarizationFailed

(***************************************************************************)
(* C16: a callback in which a notification failed to be sent does not      *)
(* throw: no entry whose callback had a sendTelegramMessage failure is an  *)
(* entry whose callback failed.                                            *)
(***************************************************************************)
C16_NotificationFailureNotPropagated ==
    \A s \in Stages : tgFailed[s] \cap FailedChats(s) = {}

(***************************************************************************)
(* C17: every envelope that reached a terminal outcome (its archiving      *)
(* callback returned, or the callback of some stage threw on it) has had   *)
(* exactly one final success-or-failure notification sent to its chat.     *)
(***************************************************************************)
C17_OneFinalNotification ==
    \A c \in 1..MaxIngest :
        (\/ c \in ChatsOf(STREAMS.SUMMARIZATION, acked[STREAMS.SUMMARIZATION])
         \/ \E s \in Stages : c \in FailedChats(s))
        => finals[c] = 1

(***************************************************************************)
(* C18: NotionProcessor.processMessage is invoked at most once per         *)
(* envelope, and only for an envelope that is exactly once on each of the  *)
(* platform-detection, scraping and summarization streams; and, unless a   *)
(* collaborator call fails, every envelope published to the ingestion      *)
(* stream eventually has its page created by exactly one such invocation.  *)
(***************************************************************************)
C18_EveryEnvelopeArchivedOnce ==
    /\ [](\A c \in 1..MaxIngest :
            /\ Count(archiverCalls, c) <= 1
            /\ c \in Range(archiverCalls) =>
                  \A s \in {STREAMS.PLATFORM_DETECTION, STREAMS.SCRAPING,
                            STREAMS.SUMMARIZATION} :
                      Cardinality(EntriesOf(s, c)) = 1)
    /\ \A c \in 1..MaxIngest :
          (EntriesOf(STREAMS.INGESTION, c) # {})
          ~> (collabFailed \/ (c \in pages /\ Count(archiverCalls, c) = 1))

C18_Witness ==
    /\ ~collabFailed
    /\ pages = 1..MaxIngest
    /\ acked[STREAMS.SUMMARIZATION] # {}
    /\ \A c \in 1..MaxIngest : finals[c] = 1

(***************************************************************************)
(* C19: an entry is appended to platform-detection only by the callback    *)
(* consuming ingestion, to scraping only by the one consuming              *)
(* platform-detection, to summarization only by the one consuming          *)
(* scraping, to ingestion only by the ingestion processor; the archiving   *)
(* callback appends nothing and stream:notion stays empty.                 *)
(***************************************************************************)
C19_LinearTopicSequence ==
    [][/\ stream'[STREAMS.NOTION] = <<>>
       /\ \A t \in StreamNames :
             Len(stream'[t]) > Len(stream[t]) =>
                \/ t = STREAMS.INGESTION /\ ingested' = ingested + 1
                \/ /\ t = STREAMS.PLATFORM_DETECTION
                   /\ pc[STREAMS.INGESTION][1] = "handling"
                   /\ pc'[STREAMS.INGESTION][1] = "acking"
                \/ /\ t = STREAMS.SCRAPING
                   /\ pc[STREAMS.PLATFORM_DETECTION][1] = "handling"
                   /\ pc'[STREAMS.PLATFORM_DETECTION][1] = "acking"
                \/ /\ t = STREAMS.SUMMARIZATION
                   /\ pc[STREAMS.SCRAPING][1] = "handling"
                   /\ pc'[STREAMS.SCRAPING][1] = "acking"
       /\ (pc[STREAMS.SUMMARIZATION][1] = "handling"
           /\ pc'[STREAMS.SUMMARIZATION][1] # "handling") => stream' = stream]_vars

C19_Witness ==
    /\ pc[STREAMS.SUMMARIZATION][1] = "acking"
    /\ \A t \in Stages : Len(stream[t]) = MaxIngest
    /\ stream[STREAMS.NOTION] = <<>>

(***************************************************************************)
(* C20: a blocking poll suspends only the loop that issued it: no command  *)
(* of another loop or of the ingestion processor (publish, poll,           *)
(* acknowledgement) waits while an XREADGROUP ... BLOCK is blocking.       *)
(***************************************************************************)
C20_BlockingPollDelaysNobody == delay = 0

(***************************************************************************)
(* C21: publish never waits for a consumer: while a loop's XREADGROUP ...  *)
(* BLOCK is blocking, no XADD of a publish is queued behind it waiting for *)
(* the block to end.                                                       *)
(***************************************************************************)
C21_PublishNeverWaits ==
    [][blocked' > blocked => ~\E i \in 2..Len(conn) : conn[i].op = "XADD"]_vars

(***************************************************************************)
(* C22: every llm.invoke of the summarizer is gated by the governor: each  *)
(* call made was preceded by a checkQuota and a checkRateLimit of its own  *)
(* that succeeded.                                                         *)
(***************************************************************************)
C22_SummarizerCallsGated ==
    /\ Len(calls) <= Cardinality({i \in 1..Len(qlog) : qlog[i].ok})
    /\ Len(calls) <= Cardinality({i \in 1..Len(rlog) : rlog[i].ok})

(***************************************************************************)
(* C23: within a stage (one consumer per group) the callback is invoked on *)
(* the stream's entries in append order, one at a time: the i-th           *)
(* invocation is on the i-th entry appended, and when an invocation starts *)
(* every earlier one has returned and its entry has been acknowledged.     *)
(***************************************************************************)
C23_HandlersInAppendOrder ==
    \A s \in Stages :
        /\ Len(handled[s]) <= Len(stream[s])
        /\ \A i \in 1..Len(handled[s]) : handled[s][i] = stream[s][i].id
        /\ \A i \in 1..(Len(handled[s]) - 1) :
              handled[s][i] \in acked[s] /\ handled[s][i] \notin failed[s]
        /\ pc[s][1] \in {"handling", "acking"} =>
              cur[s][1].id = handled[s][Len(handled[s])]

C23_Witness ==
    /\ Len(stream[STREAMS.SCRAPING]) = 2
    /\ Len(handled[STREAMS.SCRAPING]) = 2
    /\ pc[STREAMS.SCRAPING][1] = "handling"
    /\ spc = "sleep"

\* Configuration Guide, Retry Settings: "Initial retry delay: 5 seconds"
InitialRetryDelayMs == 5000

(***************************************************************************)
(* C24: the backoff of processMessage follows the documented retry         *)
(* settings: at most 3 retries, a first delay of 5 seconds, each further   *)
(* delay the double of the one before, and no delay above 30 seconds.      *)
(***************************************************************************)
C24_DocumentedRetrySettings ==
    /\ Len(sleeps) <= maxRetries
    /\ sleeps # <<>> => sleeps[1] = InitialRetryDelayMs
    /\ \A i \in 2..Len(sleeps) :
          sleeps[i] = IF 2 * sleeps[i - 1] < BackoffCapMs
                      THEN 2 * sleeps[i - 1] ELSE BackoffCapMs
    /\ \A i \in 1..Len(sleeps) : sleeps[i] <= BackoffCapMs

(***************************************************************************)
(* C25: group creation in subscribe is idempotent.  A subscribe to a group *)
(* that exists already enters its loop and leaves the group's delivery     *)
(* cursor and pending set as they were; a subscribe whose group creation   *)
(* fails with another error changes nothing in Redis and never reads an    *)
(* entry.                                                                  *)
(***************************************************************************)
C25_GroupCreationIdempotent ==
    [][\A s \in BusStages :
          /\ (pc[s][2] = "idle" /\ pc'[s][2] = "poll" /\ group[s].exists)
                => group'[s] = group[s]
          /\ (pc[s][2] = "idle" /\ pc'[s][2] = "dead")
                => /\ group' = group /\ stream' = stream
                   /\ handled' = handled /\ cur' = cur
          /\ (pc[s][2] = "dead" /\ cur[s][2] = NoEntry)
                => /\ pc'[s][2] = "dead" /\ cur'[s][2] = NoEntry
                   /\ \A p \in group'[s].pel \ group[s].pel :
                         p.consumer # 2 \/ p.deliveryCount > 1]_vars

C25_Witness ==
    \E s \in BusStages :
        /\ pc[s][2] = "poll"
        /\ pc[s][1] = "handling"
        /\ group[s].lastDelivered = cur[s][1].id
        /\ group[s].pel = {[id |-> cur[s][1].id, consumer |-> 1, deliveryCount |-> 1]}
        /\ acked[s] = {}

(***************************************************************************)
(* C26: an invocation of processMessage makes at most 3 remote calls and   *)
(* every backoff sleep is followed by a further remote call: once the      *)
(* invocation has left its loop, it has made more calls than it slept.     *)
(***************************************************************************)
C26_SleepOnlyBeforeRetry ==
    /\ Len(calls) <= maxRetries
    /\ spc \in {"exhausted", "done"} =>
          (sleeps = <<>> \/ Len(sleeps) < Len(calls))

(***************************************************************************)
(* C27: for an envelope that carries a chatId, a notice announcing the     *)
(* delay has been sent to that chat before every backoff sleep, and the    *)
(* delay announced is the delay slept; for an envelope without chatId the  *)
(* sleeps are made without any notice.  (As first stated, for every        *)
(* envelope: C27_Original.)                                                *)
(***************************************************************************)
C27_Original ==
    /\ spc = "sleep" => Len(notices) = Len(sleeps) + 1
    /\ Len(sleeps) <= Len(notices)
    /\ \A i \in 1..Len(sleeps) : notices[i] * 1000 = sleeps[i]

C27_NoticeBeforeEachSleep ==
    /\ smsg.chatId # 0 =>
          /\ spc = "sleep" => Len(notices) = Len(sleeps) + 1
          /\ Len(sleeps) <= Len(notices)
          /\ \A i \in 1..Len(sleeps) : notices[i] * 1000 = sleeps[i]
    /\ smsg.chatId = 0 => notices = <<>>

C27_Witness ==
    /\ smsg.chatId # 0
    /\ sleeps = <<1000, 2000, 4000>>
    /\ notices = <<1, 2, 4>>

(***************************************************************************)
(* C28: every invocation of processMessage has a retry budget of its own.  *)
(* Whatever earlier invocations went through, the k-th backoff of an       *)
(* invocation lasts min(1000 * 2^(k-1), 30000) ms, an attempt is made with *)
(* as many calls behind it as the invocation itself has slept, and the     *)
(* invocation gives up only after 3 remote calls of its own.               *)
(***************************************************************************)
C28_IndependentRetryBudget ==
    /\ retryCount = Len(sleeps)
    /\ \A i \in 1..Len(sleeps) : sleeps[i] = retryDelay(i - 1)
    /\ spc = "attempt" => (Len(calls) = Len(sleeps) /\ Len(calls) < maxRetries)
    /\ spc = "exhausted" => Len(calls) = maxRetries

C28_Witness ==
    /\ smsg.chatId = 2
    /\ 1 \in sumFailed
    /\ Len(stream[STREAMS.SUMMARIZATION]) = 1
    /\ stream[STREAMS.SUMMARIZATION][1].message.summary = "unavailable"
    /\ spc = "attempt"
    /\ calls = <<"status429", "status429">>
    /\ sleeps = <<1000, 2000>>

(***************************************************************************)
(* C29: the stages work on an envelope in pipeline order and none is       *)
(* skipped: the callback of a stage is invoked for an envelope only after  *)
(* the callback of the stage before returned for it, the envelope it is    *)
(* given carries the results of all the stages before, and the summarizer  *)
(* and the archiver are invoked only from their own stage's callback.      *)
(***************************************************************************)
C29_StagesInPipelineOrder ==
    LET order == <<STREAMS.INGESTION, STREAMS.PLATFORM_DETECTION,
                   STREAMS.SCRAPING, STREAMS.SUMMARIZATION>>
        started(s, c) ==
            \E i \in 1..Len(stream[s]) :
                /\ stream[s][i].message.chatId = c
                /\ stream[s][i].id \in Range(handled[s])
        returned(s, c) ==
            \E i \in 1..Len(stream[s]) :
                /\ stream[s][i].message.chatId = c
                /\ stream[s][i].id \in Range(handled[s]) \ failed[s]
                /\ \/ stream[s][i].id \in acked[s]
                   \/ pc[s][1] = "acking" /\ cur[s][1].id = stream[s][i].id
    IN /\ \A n \in 2..Len(order), c \in 1..MaxIngest :
             started(order[n], c) => returned(order[n - 1], c)
       /\ \A n \in 1..Len(order) : \A i \in 1..Len(stream[order[n]]) :
             LET m == stream[order[n]][i].message
             IN /\ n >= 2 => m.platform # "none"
                /\ n >= 3 => m.content # "none"
                /\ n >= 4 => m.summary # "none"
       /\ spc # "idle" => started(STREAMS.SCRAPING, smsg.chatId)
       /\ \A j \in 1..Len(archiverCalls) :
             /\ started(STREAMS.SUMMARIZATION, archiverCalls[j])
             /\ returned(STREAMS.SCRAPING, archiverCalls[j])

C29_Witness ==
    /\ Len(archiverCalls) = MaxIngest
    /\ pages = 1..MaxIngest
    /\ \A s \in Stages : Len(handled[s]) = MaxIngest

(***************************************************************************)
(* C30: once the archiving callback is over for an envelope flagged        *)
(* summarizationFailed, NotionProcessor.processMessage has not been called *)
(* for it, its chat (if it has one) has received exactly one failure       *)
(* notification, the callback has returned normally and the entry is       *)
(* acknowledged (or about to be: the loop is at its XACK).                 *)
(***************************************************************************)
C30_FlaggedEnvelopeAcknowledged ==
    LET s == STREAMS.SUMMARIZATION
        over(e) == /\ e.id \in Range(handled[s])
                   /\ ~(pc[s][1] = "handling" /\ cur[s][1].id = e.id)
    IN /\ \A i \in 1..Len(stream[s]) :
             LET e == stream[s][i]
                 chat == e.message.chatId
             IN (e.message.summarizationFailed /\ over(e)) =>
                   /\ chat # 0 => /\ \A j \in 1..Len(archiverCalls) :
                                        archiverCalls[j] # chat
                                  /\ finals[chat] = 1
                   /\ e.id \notin failed[s]
                   /\ \/ e.id \in acked[s]
                      \/ pc[s][1] = "acking" /\ cur[s][1].id = e.id
       /\ Len(archiverCalls) <=
             Cardinality({i \in 1..Len(stream[s]) :
                 /\ ~stream[s][i].message.summarizationFailed
                 /\ stream[s][i].id \in Range(handled[s])})

C32_PublishBeforeAck ==
    LET order == <<STREAMS.INGESTION, STREAMS.PLATFORM_DETECTION,
                   STREAMS.SCRAPING, STREAMS.SUMMARIZATION>>
        derived(m, t) ==
            \E j \in 1..Len(stream[t]) :
                /\ stream[t][j].message.userId = m.userId
                /\ stream[t][j].message.chatId = m.chatId
    IN \A n \in 1..3 : \A i \in 1..Len(stream[order[n]]) :
          LET e == stream[order[n]][i]
          IN (\/ e.id \in acked[order[n]]
              \/ pc[order[n]][1] = "acking" /\ cur[order[n]][1].id = e.id)
             => derived(e.message, order[n + 1])

C32_Witness ==
    /\ \A s \in Stages \ {STREAMS.SUMMARIZATION} : Cardinality(acked[s]) = MaxIngest
    /\ Len(stream[STREAMS.SUMMARIZATION]) = MaxIngest
    /\ stream[STREAMS.SUMMARIZATION][1].message.summary = "unavailable"

(***************************************************************************)
(* C33: in every state of a process run each of the four consumer groups   *)
(* holds at most one pending entry, and a pending entry is the one its     *)
(* consumer was handed last.                                               *)
(***************************************************************************)
C33_AtMostOnePending ==
    \A s \in Stages :
        /\ Cardinality(group[s].pel) <= 1
        /\ \A p \in group[s].pel :
              /\ p.consumer = 1
              /\ p.id = handled[s][Len(handled[s])]
              /\ pc[s][1] \in {"handling", "acking", "dead"}

C33_Witness ==
    /\ pc[STREAMS.INGESTION][1] = "poll"
    /\ Cardinality(acked[STREAMS.INGESTION]) = MaxIngest
    /\ group[STREAMS.INGESTION].pel = {}
    /\ pc[STREAMS.PLATFORM_DETECTION][1] = "dead"
    /\ Cardinality(group[STREAMS.PLATFORM_DETECTION].pel) = 1
    /\ Undelivered(STREAMS.PLATFORM_DETECTION) # {}

(***************************************************************************)
(* C34: after any checkQuota calls with costs >= 0 and any advance of the  *)
(* clock, 0 <= quotaUsed <= quotaLimit, and quotaUsed is the sum of the    *)
(* costs of the calls that succeeded since the last daily reset.           *)
(***************************************************************************)
RECURSIVE SucceededSince(_, _)
SucceededSince(n, reset) ==
    IF n = 0 THEN 0
    ELSE SucceededSince(n - 1, reset) +
         (IF qlog[n].ok /\ qlog[n].reset = reset THEN qlog[n].cost ELSE 0)

C34_QuotaUsedWithinLimit ==
    /\ 0 <= gov.quotaUsed
    /\ gov.quotaUsed <= gov.quotaLimit
    /\ gov.quotaUsed = SucceededSince(Len(qlog), gov.quotaResetTime)

C34_Witness ==
    /\ gov.quotaLimit = MaxQuotaLimit
    /\ gov.quotaUsed = gov.quotaLimit
    /\ gov.quotaResetTime > nextMidnight(0)
    /\ Len(qlog) = MaxCalls
    /\ qlog[1].ok /\ qlog[1].cost = 1 /\ qlog[1].reset = nextMidnight(0)
    /\ ~qlog[2].ok /\ qlog[2].cost = MaxCost
    /\ qlog[3].ok /\ qlog[3].cost = 0 /\ qlog[3].reset = gov.quotaResetTime
    /\ qlog[4].ok /\ qlog[4].cost = MaxCost

(***************************************************************************)
(* C35: after any checkRateLimit calls the request list holds at most      *)
(* rateLimit timestamps, right after a call every timestamp it holds is    *)
(* less than rateWindowMs old, and no window of rateWindowMs holds more    *)
(* than rateLimit admitted calls.                                          *)
(***************************************************************************)
C35_WindowNeverOverfull ==
    /\ Len(gov.requests) <= gov.rateLimit
    /\ rlog # <<>> =>
          \A i \in 1..Len(gov.requests) :
              /\ gov.requests[i] <= rlog[Len(rlog)].t
              /\ rlog[Len(rlog)].t - gov.requests[i] < gov.rateWindowMs
    /\ \A i \in 1..Len(rlog) :
          Cardinality({j \in 1..Len(rlog) :
              /\ rlog[j].ok
              /\ rlog[i].t <= rlog[j].t
              /\ rlog[j].t < rlog[i].t + gov.rateWindowMs}) <= gov.rateLimit

C35_Witness ==
    /\ gov.rateLimit = MaxRateLimit
    /\ gov.rateWindowMs = MaxWindow
    /\ Len(rlog) = MaxCalls
    /\ rlog[1].ok /\ rlog[2].ok /\ ~rlog[3].ok /\ rlog[4].ok
    /\ rlog[4].t = rlog[1].t + gov.rateWindowMs
    /\ Len(gov.requests) = gov.rateLimit
    /\ gov.requests[1] = rlog[2].t

(***************************************************************************)
(* C36: a rejected check consumes nothing.  A checkQuota that throws       *)
(* leaves quotaUsed as it was, or at 0 if the daily reset was due, and     *)
(* leaves the request list alone; a checkRateLimit that throws leaves      *)
(* quotaUsed alone, records no timestamp and drops only timestamps that    *)
(* are rateWindowMs old or older.                                          *)
(***************************************************************************)
C36_RejectedCheckConsumesNothing ==
    [][/\ (Len(qlog') > Len(qlog) /\ ~qlog'[Len(qlog')].ok) =>
             /\ gov'.quotaUsed = IF now > gov.quotaResetTime THEN 0 ELSE gov.quotaUsed
             /\ gov'.requests = gov.requests
       /\ (Len(rlog') > Len(rlog) /\ ~rlog'[Len(rlog')].ok) =>
             /\ gov'.quotaUsed = gov.quotaUsed
             /\ gov'.quotaResetTime = gov.quotaResetTime
             /\ Len(gov'.requests) = gov.rateLimit
             /\ Range(gov'.requests) \subseteq Range(gov.requests)
             /\ \A i \in 1..Len(gov.requests) :
                   now - gov.requests[i] < gov.rateWindowMs
                      => gov.requests[i] \in Range(gov'.requests)]_vars

C36_Witness ==
    /\ gov.rateLimit = 1
    /\ gov.rateWindowMs = MaxWindow
    /\ Len(rlog) = MaxCalls
    /\ rlog[1].ok /\ ~rlog[2].ok /\ ~rlog[3].ok /\ rlog[4].ok
    /\ rlog[3].t > rlog[1].t
    /\ rlog[4].t = rlog[1].t + gov.rateWindowMs

(***************************************************************************)
(* C37: a fetchVideoMetadata answered from the cache returns at once: the  *)
(* governor's quota and rate window are not touched, no check and no       *)
(* youtube.videos.list is made for it, then or later.  A cache read that   *)
(* returns nothing (a miss, or a read error, the video being cached or     *)
(* not) does not fail the fetch: it goes on to the governor checks.        *)
(***************************************************************************)
C37_CacheHitBypassesGovernor ==
    [][/\ \A i \in 1..Len(ylog) : ylog[i].hit => ylog'[i] = ylog[i]
       /\ Len(ylog') > Len(ylog) =>
             LET r == ylog'[Len(ylog')]
             IN /\ r.hit =>
                      /\ r.video \in cache
                      /\ gov' = gov /\ qlog' = qlog /\ rlog' = rlog
                      /\ r.rateChecks = 0 /\ r.quotaChecks = 0 /\ r.list = 0
                      /\ r.outcome = "cached"
                      /\ ypc' = "idle"
                /\ ~r.hit => (r.outcome = "pending" /\ ypc' = "rate")]_vars

C37_Witness ==
    /\ Len(ylog) = 2
    /\ ylog[1].outcome = "metadata"
    /\ ylog[2].video = ylog[1].video
    /\ ylog[2].hit
    /\ ypc = "idle"
    /\ Len(qlog) = 1 /\ Len(rlog) = 1
    /\ gov.quotaUsed = 1

(***************************************************************************)
(* C38: what the checks charged is never given back.  When                 *)
(* youtube.videos.list ends, with metadata, with no video or with an       *)
(* error, the governor is as the two checks left it: the unit is counted   *)
(* in quotaUsed and the request's timestamp is the last of the window.     *)
(* When checkQuota rejects a request whose checkRateLimit passed, the      *)
(* timestamp recorded for it stays in the window.                          *)
(***************************************************************************)
C38_ChargesNeverRefunded ==
    [][/\ (ypc = "list" /\ ypc' = "idle") =>
             /\ gov' = gov
             /\ gov.quotaUsed >= 1
             /\ gov.requests # <<>>
             /\ gov.requests[Len(gov.requests)] = rlog[Len(rlog)].t
       /\ (ypc = "quota" /\ ypc' = "idle") =>
             /\ ~qlog'[Len(qlog')].ok
             /\ rlog[Len(rlog)].ok
             /\ gov'.requests = gov.requests
             /\ gov.requests[Len(gov.requests)] = rlog[Len(rlog)].t]_vars

C38_Witness ==
    /\ Len(ylog) = 2
    /\ ylog[1].outcome = "error"
    /\ ylog[2].rate = "ok"
    /\ ylog[2].quota = "fail"
    /\ gov.quotaLimit = 1
    /\ gov.quotaUsed = 1
    /\ Len(gov.requests) = 2
    /\ ypc = "idle"

\* the fields of envelope a other than those in fields are those of b
SameExcept(a, b, fields) ==
    /\ DOMAIN a = DOMAIN b
    /\ \A f \in DOMAIN a \ fields : a[f] = b[f]

\* the streams in pipeline order
PipelineOrder ==
    <<STREAMS.INGESTION, STREAMS.PLATFORM_DETECTION, STREAMS.SCRAPING,
      STREAMS.SUMMARIZATION>>

\* the original statement of C39: the j-th entry of each stream differs from
\* the j-th entry of the stream before it in the stage's own field only
\* (classification: platform, fetch: content, summarization: summary)
C39_Original ==
    LET own(n) == CASE n = 1 -> {"platform"}
                    [] n = 2 -> {"content"}
                    [] n = 3 -> {"summary"}
    IN \A n \in 1..3 : \A j \in 1..Len(stream[PipelineOrder[n + 1]]) :
          /\ j <= Len(stream[PipelineOrder[n]])
          /\ SameExcept(stream[PipelineOrder[n]][j].message,
                        stream[PipelineOrder[n + 1]][j].message, own(n))

(***************************************************************************)
(* C39: envelope identity is preserved end to end.  The j-th entry of the  *)
(* platform-detection, scraping and summarization streams carries the      *)
(* userId and chatId of the j-th ingestion entry, and so does the envelope *)
(* of the j-th Archiver call; each stage changes its own field only        *)
(* (platform, content, summary), except that the YouTube fetch also        *)
(* replaces url by the watch URL built from the video id.                  *)
(***************************************************************************)
C39_IdentityPreserved ==
    LET first(j) == stream[STREAMS.INGESTION][j].message
        own(n, m) == CASE n = 1 -> {"platform"}
                       [] n = 2 -> IF m.platform = "youtube"
                                   THEN {"content", "url"} ELSE {"content"}
                       [] n = 3 -> {"summary"}
    IN /\ \A n \in 1..3 : \A j \in 1..Len(stream[PipelineOrder[n + 1]]) :
            /\ j <= Len(stream[PipelineOrder[n]])
            /\ j <= Len(stream[STREAMS.INGESTION])
            /\ LET before == stream[PipelineOrder[n]][j].message
                   after == stream[PipelineOrder[n + 1]][j].message
               IN /\ after.userId = first(j).userId
                  /\ after.chatId = first(j).chatId
                  /\ SameExcept(before, after, own(n, before))
                  /\ (n = 2 /\ before.platform = "youtube")
                        => after.url = watchUrl(extractVideoId(before.url))
       /\ \A i \in 1..Len(archiverCalls) :
            /\ i <= Len(stream[STREAMS.INGESTION])
            /\ archiverCalls[i] = first(i).chatId

C39_Witness ==
    /\ Len(stream[STREAMS.SUMMARIZATION]) = MaxIngest
    /\ Len(archiverCalls) = MaxIngest
    /\ stream[STREAMS.INGESTION][1].message.url = Urls[1]
    /\ stream[STREAMS.SUMMARIZATION][1].message.url = watchUrl("abc")
    /\ stream[STREAMS.SUMMARIZATION][1].message.url # Urls[1]
    /\ stream[STREAMS.SUMMARIZATION][2].message.url = Urls[2]
    /\ \A j \in 1..MaxIngest : stream[STREAMS.SUMMARIZATION][j].message.chatId = j

(***************************************************************************)
(* IngestionProcessor: the handler setupWebhook registers with             *)
(* bot.on('message').  The bot polls from the construction of the          *)
(* processor on, so handlers run before setupMessageFlow has given the     *)
(* processor its bus, and the handlers of several messages interleave at   *)
(* their awaits.                                                           *)
(***************************************************************************)
ProcessingText == "Processing your link..."
SorryText == "Sorry, there was an error processing your link."

\* what a user sends as the n-th message: a link, or plain text
TextsOf(n) == {UrlOf(n), "hello"}

\* IngestionProcessor.isValidUrl: new URL(string) does not throw
isValidUrl(text) == \E i \in 1..Len(Urls) : text = Urls[i]

\* the outcomes of redis.xadd in MessageBus.publish
XAddReplies == {"ok", "failed"}

\* a handleError that logs the error and returns
handleError_returns(error) == "returns"

\* BaseProcessor.handleError: logs, wraps what is not an Error, and throws
handleError(error) == "throws"

\* new IngestionProcessor(token) at module load: the bot polls while the
\* process is up, before setupMessageFlow has run and after
botPolling == proc = "running" \/ run = 0

\* a message event: the handler starts; text that is not a URL is ignored
onMessage(text) ==
    /\ botPolling
    /\ ingested < MaxIngest
    /\ ingested' = ingested + 1
    /\ hook' = [hook EXCEPT ![ingested + 1] =
           [pc |-> IF isValidUrl(text) THEN "acknowledge" ELSE "ignored",
            error |-> "none"]]
    /\ UNCHANGED <<proc, run, busSet, redisVars, pc, cur, histVars, govVars, ytVars,
                   sumVars, pipeVars, connVars, botSent>>

\* await this.bot.sendMessage(msg.chat.id, 'Processing your link...')
sendAcknowledgement(n, tg) ==
    /\ hook[n].pc = "acknowledge"
    /\ IF tg = "sent"
       THEN /\ botSent' = Append(botSent, [chat |-> n, text |-> ProcessingText])
            /\ hook' = [hook EXCEPT ![n].pc = "process"]
       ELSE /\ hook' = [hook EXCEPT ![n] = [pc |-> "catch", error |-> "send"]]
            /\ UNCHANGED botSent
    /\ UNCHANGED <<busVars, govVars, ytVars, sumVars, pipeVars, connVars>>

\* IngestionProcessor.processMessage: throws without a bus, else publishes
\* the message to stream:ingestion; what publish throws is not caught here
ingestionProcessMessage(n, reply) ==
    /\ hook[n].pc = "process"
    /\ IF ~busSet
       THEN /\ hook' = [hook EXCEPT ![n] = [pc |-> "catch", error |-> "noBus"]]
            /\ UNCHANGED <<stream, lastId, published>>
       ELSE IF reply = "ok"
       THEN /\ publish(STREAMS.INGESTION, NewMessage(n, UrlOf(n)))
            /\ hook' = [hook EXCEPT ![n].pc = "done"]
       ELSE /\ hook' = [hook EXCEPT ![n] = [pc |-> "catch", error |-> "publish"]]
            /\ UNCHANGED <<stream, lastId, published>>
    /\ UNCHANGED <<proc, run, busSet, group, pc, cur, ingested, handled, failed, acked,
                   atShutdown, govVars, ytVars, sumVars, pipeVars, connVars, botSent>>

\* the catch block: await this.handleError(...), then the "Sorry" message.
\* What handleError or the send throws rejects the handler's promise.
webhookCatch(n, tg) ==
    /\ hook[n].pc = "catch"
    /\ IF handleError(hook[n].error) = "returns" /\ tg = "sent"
       THEN /\ botSent' = Append(botSent, [chat |-> n, text |-> SorryText])
            /\ hook' = [hook EXCEPT ![n].pc = "done"]
       ELSE /\ hook' = [hook EXCEPT ![n].pc = "rejected"]
            /\ UNCHANGED botSent
    /\ UNCHANGED <<busVars, govVars, ytVars, sumVars, pipeVars, connVars>>

\* the ingestion processor from its construction on, and the start of the
\* message flow that gives it the bus
WebhookNext ==
    \/ setupMessageFlow
    \/ \E n \in 1..MaxIngest : \E text \in TextsOf(n) :
          n = ingested + 1 /\ onMessage(text)
    \/ \E n \in 1..MaxIngest, tg \in TgOutcomes : sendAcknowledgement(n, tg)
    \/ \E n \in 1..MaxIngest, reply \in XAddReplies : ingestionProcessMessage(n, reply)
    \/ \E n \in 1..MaxIngest, tg \in TgOutcomes : webhookCatch(n, tg)

SpecWebhook == Init /\ [][WebhookNext]_vars

====
